---- MODULE Spec2Model ----
(***************************************************************************)
(* Model of the recording / silence-detection loop (AudioRecorder), of the *)
(* transcription cycle entry (handle_transcription) and of the per-session *)
(* status channel (create_status_callback, stream_status, current_status,  *)
(* cleanup_session) of mlx_speech_to_text.                                  *)
(***************************************************************************)
EXTENDS Integers, Sequences, FiniteSets, TLC

(* ------------------------------------------------------------------ *)
(* Program constants                                                    *)
(* ------------------------------------------------------------------ *)
SILENCE_CHUNKS == 15
DEFAULT_SILENCE_THRESHOLD == 500
BarLength == 30
CALIBRATION_FRAMES == 30
CALIBRATION_BUFFER == 200
SSE_RETRY_TIMEOUT == 3000

(* ------------------------------------------------------------------ *)
(* Bounds of the model                                                  *)
(* ------------------------------------------------------------------ *)
\* longest run of frames at or above the threshold that opens a recording
MaxLoudRun == 20
\* longest run of frames at or above the threshold after a silence run
MaxResumeRun == 2
\* largest number of maximal runs (loud / silent) in one recording
MaxRuns == 3
\* largest number of keepalives one status stream yields
MaxKeepalives == 1

VARIABLES
    \* ---- AudioRecorder ----
    stream_open,        \* self.stream is not None
    silence_threshold,  \* self.silence_threshold
    rec_pc,             \* position of record_audio: "idle", "reading", "returned"
    reads,              \* peak amplitude of every frame read from the stream, in read order
    frames,             \* record_audio's local list `frames`: the read index of each frame
    silent_chunks,      \* record_audio's local counter
    stdout_bar,         \* filled length of every progress bar written to stdout
    rec_success,        \* the success flag record_audio returned
    rec_status,         \* status events the recorder has emitted (it holds no callback)
    \* ---- AudioRecorder.calibrate_silence_threshold ----
    cal_pc,             \* "idle", "reading", "returned", "raised"
    cal_reads,          \* iterations of the calibration loop done
    background_frames,  \* the local list of peak amplitudes
    cal_result,         \* the value the call returned
    \* ---- sessions and their background tasks ----
    session_queues,     \* keys of the module-level dict session_queues
    status_queue,       \* content of each session's Queue object
    published,          \* every event put on each session's queue, in put order
    last_status,        \* the module-level dict last_status
    releases,           \* how often `del session_queues[session_id]` removed the key
    task_pc,            \* position of each session's start request / background task
    task_kind,          \* "copy" (start_recording) or "chat" (start_chat)
    task_doc,           \* start_chat was given a valid document path
    start_result,       \* the chat_id argument and the HTTP status of each start request
    ht_exc,             \* exception handle_transcription raised to its caller
    cycle_in,           \* what the microphone, the speech model and the other
                        \* collaborators give the session's cycle
    ht_ret,             \* the triple handle_transcription returned
    ht_effects,         \* the steps handle_transcription performed, in order
    \* ---- stream_status generators (one per observer connection) ----
    obs_pc,             \* position of the generator
    obs_sid,            \* its session_id
    obs_event,          \* the event_data it took from the queue
    obs_site,           \* source line of the cleanup_session call it is in
    obs_exc,            \* lines at which cleanup_session raised KeyError in it
    obs_keepalives,     \* keepalives it has yielded
    delivered,          \* everything it has yielded, in order
    \* ---- current_status request ----
    poll_pc,
    poll_sid,
    poll_event,         \* the event_data get_nowait returned
    poll_response,      \* body of the last response
    \* ---- ChatHandler, ChatHistory, MLXWToLLM (one chat handler) ----
    chat_pc,            \* position of process_message: "idle", "llm_wait", "add_user",
                        \* "add_assistant", "initialize", "tts"
    current_chat_id,    \* chat_history.current_chat_id
    messages,           \* chat_history.messages
    chat_files,         \* the stored history files: chat id -> messages
    pm_text,            \* process_message's argument text
    pm_flags,           \* its flags use_kokoro, stream_to_speakers, save_to_file
    pm_ret,             \* the pair process_message returned last
    llm_requests,       \* the message lists posted to the language model, in order
    llm_result,         \* what the last language-model call gave
    llm_output_file,    \* the response _save_response wrote last
    tts_calls,          \* the speech-synthesis requests made, in order
    turns,              \* calls of process_message so far
    \* ---- WhisperTranscriber (one call at a time) ----
    tr_op,              \* the method called last: "none", "transcribe_audio",
                        \* "validate_transcription"
    tr_arg,             \* its argument: the audio and what the model does with it,
                        \* or the text
    tr_ret,             \* what it returned
    \* ---- requests to the registered blueprint (api/connect.py) ----
    conn_pc,            \* position of each request's handler: "none", "calibrate",
                        \* "calibrating", "ht_call", "answered"
    conn_kind,          \* "copy" (/copy/start) or "chat" (/chat/start)
    conn_stream,        \* the request's recorder has an open input stream
    conn_reads,         \* iterations of its calibration loop done
    conn_code,          \* the HTTP status it answered with
    \* ---- cleanup_session called in sequence ----
    cs_sid,             \* the session id of the last call
    cs_calls,           \* calls with that id in a row
    cs_before,          \* keys of session_queues before the first of them
    cs_raised,          \* the last call raised
    \* ---- `with recorder:` ----
    with_pc,            \* "none", "body", "exited"
    with_path,          \* how the block was left: "returned" or "raised"
    stream_closes,      \* how often the recorder's stream was closed
    \* ---- handle_transcription called with any flags ----
    ht_flags            \* the mode flags of the call

recVars == <<stream_open, silence_threshold, rec_pc, reads, frames,
             silent_chunks, stdout_bar, rec_success, rec_status>>

calVars == <<cal_pc, cal_reads, background_frames, cal_result>>

cycleVars == <<cycle_in, ht_ret, ht_effects>>

sessVars == <<session_queues, status_queue, published, last_status, releases,
              task_pc, task_kind, task_doc, start_result, ht_exc, cycleVars>>

obsVars == <<obs_pc, obs_sid, obs_event, obs_site, obs_exc, obs_keepalives, delivered>>

pollVars == <<poll_pc, poll_sid, poll_event, poll_response>>

chatVars == <<chat_pc, current_chat_id, messages, chat_files, pm_text, pm_flags, pm_ret,
              llm_requests, llm_result, llm_output_file, tts_calls, turns>>

trVars == <<tr_op, tr_arg, tr_ret>>

connVars == <<conn_pc, conn_kind, conn_stream, conn_reads, conn_code>>

unitVars == <<cs_sid, cs_calls, cs_before, cs_raised, with_pc, with_path,
              stream_closes, ht_flags>>

vars == <<recVars, calVars, sessVars, obsVars, pollVars, chatVars, trVars, connVars,
          unitVars>>

Last(s) == s[Len(s)]

(* ------------------------------------------------------------------ *)
(* AudioRecorder.record_audio                                           *)
(* ------------------------------------------------------------------ *)

\* peak amplitudes the stream yields: just below the threshold, exactly at it
Amps(thr) == {thr - 1, thr}

IsSilent_le(amp, thr) == amp <= thr
\* `if max_amplitude < self.silence_threshold`
IsSilent(amp, thr) == amp < thr

\* `filled_length = int(progress * bar_length)`, progress = silent_chunks / SILENCE_CHUNKS
FilledLength(sc) == (sc * BarLength) \div SILENCE_CHUNKS

NextSilentChunks_noreset(sc, amp, thr) == IF IsSilent(amp, thr) THEN sc + 1 ELSE sc
\* `silent_chunks += 1` in the silent branch, `silent_chunks = 0` in the other
NextSilentChunks(sc, amp, thr) == IF IsSilent(amp, thr) THEN sc + 1 ELSE 0

EndOfSpeech_ge(sc) == sc >= SILENCE_CHUNKS
\* `if silent_chunks > SILENCE_CHUNKS: break`
EndOfSpeech(sc) == sc > SILENCE_CHUNKS

FramesAfterRead_always(fr, idx, sc) == Append(fr, idx)
\* the break comes before `frames.append(audio_data)`
FramesAfterRead(fr, idx, sc) == IF EndOfSpeech(sc) THEN fr ELSE Append(fr, idx)

\* number of maximal runs of loud / silent frames among the first n amplitudes of s
RECURSIVE RunsUpTo(_, _, _)
RunsUpTo(s, n, thr) ==
    IF n <= 1 THEN n
    ELSE RunsUpTo(s, n - 1, thr) + (IF (s[n] < thr) = (s[n - 1] < thr) THEN 0 ELSE 1)

Runs(s, thr) == RunsUpTo(s, Len(s), thr)

\* length of the run of frames on the same side of the threshold that ends at s[n]
RECURSIVE TailRunAt(_, _, _)
TailRunAt(s, n, thr) ==
    IF n <= 1 THEN n
    ELSE IF (s[n] < thr) = (s[n - 1] < thr) THEN 1 + TailRunAt(s, n - 1, thr)
    ELSE 1

TailRun(s, thr) == TailRunAt(s, Len(s), thr)

\* the streams the model enumerates: at most MaxRuns runs, an opening loud run of
\* at most MaxLoudRun frames, later loud runs of at most MaxResumeRun frames
StreamYields(s, amp, thr) ==
    IF Len(s) = 0 THEN TRUE
    ELSE IF (amp < thr) = (Last(s) < thr)
         THEN \/ amp < thr
              \/ TailRun(s, thr) < (IF Runs(s, thr) = 1 THEN MaxLoudRun ELSE MaxResumeRun)
         ELSE Runs(s, thr) < MaxRuns

\* start_stream(): opens the stream unless one is open; audio.open may raise
StartStreamOutcomes(open) == IF open THEN {"open"} ELSE {"open", "raised"}

\* record_audio calls start_stream() outside its try block
record_audio_start ==
    /\ rec_pc \in {"idle", "returned", "raised"}
    /\ cal_pc # "reading"
    /\ \E outcome \in StartStreamOutcomes(stream_open) :
         /\ stream_open' = (outcome = "open")
         /\ rec_pc' = IF outcome = "open" THEN "reading" ELSE "raised"
    /\ frames' = << >>
    /\ silent_chunks' = 0
    /\ reads' = << >>
    /\ stdout_bar' = << >>
    /\ UNCHANGED <<silence_threshold, rec_success, rec_status>>
    /\ UNCHANGED <<unitVars, connVars, trVars, calVars, chatVars, sessVars, obsVars, pollVars>>

record_audio_read ==
    /\ rec_pc = "reading"
    /\ \E amp \in Amps(silence_threshold) :
         /\ StreamYields(reads, amp, silence_threshold)
         /\ LET sc == NextSilentChunks(silent_chunks, amp, silence_threshold) IN
              /\ reads' = Append(reads, amp)
              /\ stdout_bar' = IF IsSilent(amp, silence_threshold)
                               THEN Append(stdout_bar, FilledLength(silent_chunks))
                               ELSE stdout_bar
              /\ silent_chunks' = sc
              /\ frames' = FramesAfterRead(frames, Len(reads) + 1, sc)
              /\ rec_pc' = IF EndOfSpeech(sc) THEN "returned" ELSE "reading"
              /\ rec_success' = IF EndOfSpeech(sc) THEN TRUE ELSE rec_success
    /\ UNCHANGED <<stream_open, silence_threshold, rec_status>>
    /\ UNCHANGED <<unitVars, connVars, trVars, calVars, chatVars, sessVars, obsVars, pollVars>>

OnReadError_discard(fr) == [frames |-> << >>, success |-> FALSE, pc |-> "returned"]
\* `except Exception as e: ... return frames, False`
OnReadError(fr) == [frames |-> fr, success |-> FALSE, pc |-> "returned"]

\* stream.read (or the conversion of its data) raises inside the try block
record_audio_read_fails ==
    /\ rec_pc = "reading"
    /\ LET r == OnReadError(frames) IN
         /\ rec_pc' = r.pc
         /\ rec_success' = r.success
         /\ frames' = r.frames
    /\ UNCHANGED <<stream_open, silence_threshold, reads, silent_chunks,
                   stdout_bar, rec_status>>
    /\ UNCHANGED <<unitVars, connVars, trVars, calVars, chatVars, sessVars, obsVars, pollVars>>

(* ------------------------------------------------------------------ *)
(* AudioRecorder.calibrate_silence_threshold                            *)
(* ------------------------------------------------------------------ *)

\* peak amplitudes of the background noise; within one call every frame has
\* the same peak
Backgrounds == {0, 120}

\* Python's `not data`
NoData == 0 - 1

RECURSIVE SumSeq(_)
SumSeq(q) == IF q = << >> THEN 0 ELSE Head(q) + SumSeq(Tail(q))

\* mx.mean(background_tensor).item(), exact for the frames the model reads
Mean(q) == SumSeq(q) \div Len(q)

\* the threshold the loop's frames give: the default when there is none
CalibratedThreshold(bf) ==
    IF bf = << >> THEN DEFAULT_SILENCE_THRESHOLD ELSE Mean(bf) + CALIBRATION_BUFFER

\* calibrate_silence_threshold calls start_stream() outside its try block
calibrate_start ==
    /\ cal_pc \in {"idle", "returned", "raised"}
    /\ rec_pc # "reading"
    /\ \E outcome \in StartStreamOutcomes(stream_open) :
         /\ stream_open' = (outcome = "open")
         /\ cal_pc' = IF outcome = "open" THEN "reading" ELSE "raised"
    /\ cal_reads' = 0
    /\ background_frames' = << >>
    /\ UNCHANGED <<cal_result, silence_threshold, rec_pc, reads, frames, silent_chunks,
                   stdout_bar, rec_success, rec_status>>
    /\ UNCHANGED <<unitVars, connVars, trVars, chatVars, sessVars, obsVars, pollVars>>

\* one iteration of `for _ in range(CALIBRATION_FRAMES)`: empty data is skipped,
\* a frame's peak is appended
calibrate_read ==
    /\ cal_pc = "reading"
    /\ cal_reads < CALIBRATION_FRAMES
    /\ \E data \in Backgrounds \cup {NoData} :
         /\ (data # NoData /\ background_frames # << >>) => data = Last(background_frames)
         /\ background_frames' = IF data = NoData THEN background_frames
                                 ELSE Append(background_frames, data)
    /\ cal_reads' = cal_reads + 1
    /\ UNCHANGED <<cal_pc, cal_result, recVars>>
    /\ UNCHANGED <<unitVars, connVars, trVars, chatVars, sessVars, obsVars, pollVars>>

\* after the loop: the default threshold without valid frames, else the mean
\* plus CALIBRATION_BUFFER
calibrate_finish ==
    /\ cal_pc = "reading"
    /\ cal_reads = CALIBRATION_FRAMES
    /\ silence_threshold' = CalibratedThreshold(background_frames)
    /\ cal_result' = CalibratedThreshold(background_frames)
    /\ cal_pc' = "returned"
    /\ UNCHANGED <<cal_reads, background_frames, stream_open, rec_pc, reads, frames,
                   silent_chunks, stdout_bar, rec_success, rec_status>>
    /\ UNCHANGED <<unitVars, connVars, trVars, chatVars, sessVars, obsVars, pollVars>>

\* an exception inside the try block: `except Exception` sets and returns the
\* default threshold
calibrate_read_fails ==
    /\ cal_pc = "reading"
    /\ cal_reads < CALIBRATION_FRAMES
    /\ silence_threshold' = DEFAULT_SILENCE_THRESHOLD
    /\ cal_result' = DEFAULT_SILENCE_THRESHOLD
    /\ cal_pc' = "returned"
    /\ UNCHANGED <<cal_reads, background_frames, stream_open, rec_pc, reads, frames,
                   silent_chunks, stdout_bar, rec_success, rec_status>>
    /\ UNCHANGED <<unitVars, connVars, trVars, chatVars, sessVars, obsVars, pollVars>>

(* ------------------------------------------------------------------ *)
(* Status events: api_utils.py, connect_status.py                       *)
(* ------------------------------------------------------------------ *)
Sessions == {"s1"}
Observers == {"o1", "o2"}

\* Python's None, as a progress value and as an absent event type / retry
NoProgress == 0 - 1
None == "None"
NoRetry == 0 - 1

\* keys of STATUS_TYPES
STATUS_TYPES ==
    {"calibrating", "recording", "silence", "processing", "doc_loading",
     "doc_processing", "streaming", "complete", "error"}

\* keys of VALID_STATUS_TYPES
VALID_STATUS_TYPES ==
    {"calibrating", "recording", "silence", "processing", "streaming",
     "complete", "error"}

validate_status_type(status) == status \in STATUS_TYPES

get_event_type(status) ==
    IF status \in {"doc_loading", "doc_processing"} THEN "processing"
    ELSE IF status = "calibrating" THEN "calibration"
    ELSE IF status \in {"recording", "silence", "processing"} THEN "recording"
    ELSE IF status \in {"streaming", "complete", "error"} THEN status
    ELSE "recording"

validate_status_event(status, message, progress) ==
    /\ status \in VALID_STATUS_TYPES
    /\ ~(status = "silence" /\ (progress = NoProgress \/ ~(0 <= progress /\ progress <= 100)))

StatusData(sid, status, message, progress) ==
    [session_id |-> sid, status |-> status, message |-> message, progress |-> progress]

EmptyData == StatusData("", "", "", NoProgress)

\* the event status_update puts on the queue
StatusEvent(sid, status, message, progress) ==
    LET ok  == validate_status_type(status)
        st  == IF ok THEN status ELSE "error"
        msg == IF ok THEN message ELSE "Invalid status type: error"
    IN  [event |-> get_event_type(st), data |-> StatusData(sid, st, msg, progress)]

\* format_sse(data, event, retry): the message handed to the client
format_sse(data, event, retry) == [retry |-> retry, event |-> event, data |-> data]

SessionNotFound(sid) == StatusData(sid, "error", "Session not found", NoProgress)
UnknownStatus(sid) == StatusData(sid, "unknown", "No status available", NoProgress)
StreamError(sid, msg) == StatusData(sid, "error", msg, NoProgress)

KeepaliveData_placeholder(sid, ls) == UnknownStatus(sid)
\* the keepalive stream_status yields after queue.get timed out
KeepaliveData(sid, ls) ==
    IF sid \in DOMAIN ls
    THEN StatusData(sid, ls[sid].status, ls[sid].message, ls[sid].progress)
    ELSE UnknownStatus(sid)

IsTerminal(status) == status \in {"complete", "error"}

\* last_status[session_id] = status_data
update_last_status(ls, sid, data) ==
    [k \in (DOMAIN ls) \cup {sid} |-> IF k = sid THEN data ELSE ls[k]]

\* create_status_callback(...).status_update: put one event on the session's queue
Publish(sid, status, message, progress) ==
    LET ev == StatusEvent(sid, status, message, progress) IN
      /\ status_queue' = [status_queue EXCEPT ![sid] = Append(@, ev)]
      /\ published' = [published EXCEPT ![sid] = Append(@, ev)]

(* ------------------------------------------------------------------ *)
(* Texts and WhisperTranscriber                                         *)
(* ------------------------------------------------------------------ *)

\* a text is the sequence of its characters
UpperLetters ==
    <<"A", "B", "C", "D", "E", "F", "G", "H", "I", "J", "K", "L", "M",
      "N", "O", "P", "Q", "R", "S", "T", "U", "V", "W", "X", "Y", "Z">>

LowerLetters ==
    <<"a", "b", "c", "d", "e", "f", "g", "h", "i", "j", "k", "l", "m",
      "n", "o", "p", "q", "r", "s", "t", "u", "v", "w", "x", "y", "z">>

LowerChar(c) ==
    IF \E i \in 1..Len(UpperLetters) : UpperLetters[i] = c
    THEN LowerLetters[CHOOSE i \in 1..Len(UpperLetters) : UpperLetters[i] = c]
    ELSE c

\* str.lower()
Lower(t) == [i \in 1..Len(t) |-> LowerChar(t[i])]

RECURSIVE LStrip(_)
LStrip(t) == IF t # << >> /\ Head(t) = " " THEN LStrip(Tail(t)) ELSE t

RECURSIVE RStrip(_)
RStrip(t) == IF t # << >> /\ t[Len(t)] = " " THEN RStrip(SubSeq(t, 1, Len(t) - 1)) ELSE t

\* str.strip()
Strip(t) == RStrip(LStrip(t))

\* len(str.split())
WordCount(t) ==
    Cardinality({i \in 1..Len(t) : t[i] # " " /\ (i = 1 \/ t[i - 1] = " ")})

MINIMUM_WORD_COUNT == 3

SUSPICIOUS_RESPONSES ==
    { <<"t", "h", "a", "n", "k", " ", "y", "o", "u", ".">>,
      <<"t", "h", "a", "n", "k", " ", "y", "o", "u">>,
      <<"t", "h", "a", "n", "k", "s">>,
      <<"o", "k", "a", "y">>,
      <<"o", "k">>,
      <<"y", "e", "s">>,
      <<"n", "o">> }

\* WhisperTranscriber._normalize_text
normalize_text(text) == IF text = << >> THEN << >> ELSE Lower(Strip(text))

TooShortMessage(wc) ==
    CASE wc = 0 -> "Transcription too short (0 words) - possible audio quality issue"
      [] wc = 1 -> "Transcription too short (1 words) - possible audio quality issue"
      [] wc = 2 -> "Transcription too short (2 words) - possible audio quality issue"
      [] OTHER -> "Transcription too short - possible audio quality issue"

\* WhisperTranscriber.validate_transcription: (is_valid, error_message)
validate_transcription(text) ==
    LET n == normalize_text(text) IN
    IF text = << >> THEN [is_valid |-> FALSE, error_message |-> "Empty transcription"]
    ELSE IF WordCount(n) < MINIMUM_WORD_COUNT
         THEN [is_valid |-> FALSE, error_message |-> TooShortMessage(WordCount(n))]
    ELSE IF n \in {normalize_text(r) : r \in SUSPICIOUS_RESPONSES}
         THEN [is_valid |-> FALSE, error_message |-> "Low confidence transcription detected"]
    ELSE [is_valid |-> TRUE, error_message |-> None]

\* what the speech model does with an utterance: it raises, or returns a raw text
ModelRaises == [empty |-> FALSE, raises |-> TRUE, text |-> << >>]
ModelReturns(raw) == [empty |-> FALSE, raises |-> FALSE, text |-> raw]

\* audio data of length 0: the model is not called
EmptyAudio == [empty |-> TRUE, raises |-> FALSE, text |-> << >>]

\* transcribe_audio's result None
NoResult == [is_none |-> TRUE, text |-> << >>, validation_error |-> None]

transcribe_audio_strict(heard) ==
    IF heard.empty \/ heard.raises THEN NoResult
    ELSE IF ~validate_transcription(normalize_text(heard.text)).is_valid THEN NoResult
    ELSE [is_none |-> FALSE, text |-> normalize_text(heard.text), validation_error |-> None]
\* WhisperTranscriber.transcribe_audio: None, or the result with its normalized
\* text and, when validation failed, its validation_error
transcribe_audio(heard) ==
    IF heard.empty THEN NoResult
    ELSE IF heard.raises THEN NoResult
    ELSE LET text == normalize_text(heard.text)
             v    == validate_transcription(text)
         IN  [is_none |-> FALSE, text |-> text, validation_error |-> v.error_message]

\* WhisperTranscriber.check_exit_command
check_exit_command(result) == Lower(Strip(result.text)) = <<"e", "x", "i", "t">>

\* WhisperTranscriber.get_transcribed_text
get_transcribed_text(result) == result.text

(* ------------------------------------------------------------------ *)
(* start_recording, start_chat and their background tasks               *)
(* ------------------------------------------------------------------ *)

\* what an AudioRecorder instance has
AudioRecorderAttrs ==
    {"audio", "stream", "silence_threshold", "__enter__", "__exit__", "start_stream",
     "stop_stream", "cleanup", "calibrate_silence_threshold", "record_audio",
     "process_audio_frames"}

\* the parameters of handle_transcription
HandleTranscriptionParams ==
    {"recorder", "transcriber", "copy_to_clipboard", "output_file", "use_kokoro",
     "use_llm", "chat_handler", "stream_to_speakers", "save_to_file", "optimize_voice",
     "status_callback", "stop_event"}

\* the arguments start_recording's task passes to handle_transcription
CopyCallArgs ==
    {"recorder", "transcriber", "copy_to_clipboard", "output_file", "use_kokoro",
     "use_llm", "chat_handler", "stream_to_speakers", "save_to_file", "optimize_voice",
     "status_callback", "stop_event"}

\* the arguments start_chat's task passes to handle_transcription
ChatCallArgs == CopyCallArgs \cup {"doc_path"}

CallArgs(kind) == IF kind = "chat" THEN ChatCallArgs ELSE CopyCallArgs

\* the flags start_recording's task passes
CopyFlags ==
    [copy_to_clipboard |-> TRUE, output_file |-> FALSE, use_kokoro |-> FALSE,
     use_llm |-> FALSE, chat_handler |-> FALSE, stream_to_speakers |-> FALSE,
     save_to_file |-> FALSE, status_callback |-> TRUE]

\* the flags start_chat's task passes in the default mode 'chat'
ChatFlags ==
    [copy_to_clipboard |-> FALSE, output_file |-> FALSE, use_kokoro |-> FALSE,
     use_llm |-> TRUE, chat_handler |-> TRUE, stream_to_speakers |-> FALSE,
     save_to_file |-> FALSE, status_callback |-> TRUE]

TaskFlags(kind) == IF kind = "chat" THEN ChatFlags ELSE CopyFlags

\* texts the speech model returns
Heard_Exit == <<" ", "E", "x", "i", "t", " ">>
Heard_Ok == <<"o", "k">>
Heard_Speech ==
    <<"H", "e", "l", "l", "o", " ", "t", "h", "e", "r", "e", " ",
      "f", "r", "i", "e", "n", "d">>

\* one cycle's collaborators: the stop event at the checkpoint, record_audio's
\* result, the speech model, the clipboard, the language model and the
\* speech-output conversion
CycleInput(audio, heard) ==
    [stop |-> FALSE, stop_later |-> FALSE, audio |-> audio, heard |-> heard,
     clipboard |-> "ok", llm |-> "reply", tts |-> "path"]

CycleInputs ==
    { CycleInput("read_fails", ModelRaises),
      CycleInput("recorded", ModelRaises),
      CycleInput("recorded", ModelReturns(Heard_Ok)),
      CycleInput("recorded", ModelReturns(Heard_Exit)),
      CycleInput("recorded", ModelReturns(Heard_Speech)) }

NoInput == CycleInput("none", ModelRaises)

\* every value of handle_transcription's collaborators: the stop event set or
\* not at the checkpoint of line 81 and set or not later in the cycle,
\* record_audio and process_audio_frames failing or not, and the outcomes of
\* the speech model, the clipboard, the language model and the conversion
AllCycleInputs ==
    [stop : BOOLEAN, stop_later : BOOLEAN,
     audio : {"read_fails", "unprocessable", "recorded"},
     heard : {ModelRaises, ModelReturns(Heard_Ok), ModelReturns(Heard_Exit),
              ModelReturns(Heard_Speech)},
     clipboard : {"ok", "raises"}, llm : {"reply", "none", "raises"},
     tts : {"path", "raises"}]

\* a value handle_transcription returns, with the statuses it published and
\* the steps it performed on the way
Outcome(cont, err, st, eff) ==
    [returned |-> TRUE, continue |-> cont, error_message |-> err,
     statuses |-> st, effects |-> eff]

NotReturned ==
    [returned |-> FALSE, continue |-> FALSE, error_message |-> None]

\* update_status: calls the status callback if there is one
UpdateStatus(flags, st, status, message) ==
    IF flags.status_callback THEN Append(st, [status |-> status, message |-> message])
    ELSE st

ExitPhrases ==
    { <<"e", "x", "i", "t">>, <<"q", "u", "i", "t">>, <<"s", "t", "o", "p">> }

IsExitPhrase_exact(text) == text \in ExitPhrases
\* `text.strip().lower() in ['exit', 'quit', 'stop']`
IsExitPhrase(text) == Lower(Strip(text)) \in ExitPhrases

\* what ChatHandler.process_message returns for a text and a language-model
\* outcome
ProcessMessageResult(text, llm) ==
    IF IsExitPhrase(text) THEN [continue |-> FALSE, response |-> None]
    ELSE IF llm = "reply" THEN [continue |-> TRUE, response |-> "chat_response"]
    ELSE [continue |-> TRUE, response |-> None]

\* handle_transcription in chat mode (lines 133-151)
ChatModeSteps(in, flags, text, st, eff) ==
    LET r   == ProcessMessageResult(text, in.llm)
        st1 == IF flags.stream_to_speakers
               THEN UpdateStatus(flags, st, "streaming", "Playing response audio...")
               ELSE st
        st2 == IF r.response # None
               THEN UpdateStatus(flags, st1, "complete", r.response)
               ELSE st1
    IN  Outcome(r.continue, None, st2, Append(eff, "process_message"))

\* handle_transcription's speech-output conversion and final status
\* (lines 195-218); saved: a file was saved earlier in the cycle
KokoroSteps(in, flags, st, eff, saved) ==
    LET convert == flags.use_kokoro /\ ~flags.stream_to_speakers
        eff1    == IF convert THEN Append(eff, "tts") ELSE eff
        saved1  == saved \/ (convert /\ in.tts = "path")
    IN  IF convert /\ in.tts = "raises"
        THEN Outcome(TRUE, "Error in Kokoro conversion",
                     UpdateStatus(flags, st, "error", "Error in Kokoro conversion"), eff1)
        ELSE Outcome(TRUE, None,
                     IF saved1 /\ ~flags.chat_handler /\ ~flags.copy_to_clipboard
                     THEN UpdateStatus(flags, st, "complete", "Saved to")
                     ELSE st,
                     eff1)

\* handle_transcription's language-model pass-through (lines 177-193)
LlmSteps(in, flags, st, eff) ==
    IF ~flags.use_llm THEN KokoroSteps(in, flags, st, eff, flags.output_file)
    ELSE IF in.llm = "raises"
    THEN Outcome(TRUE, "Error in LLM processing",
                 UpdateStatus(flags, st, "error", "Error in LLM processing"),
                 Append(eff, "llm"))
    ELSE IF in.llm = "reply"
    THEN KokoroSteps(in, flags, UpdateStatus(flags, st, "complete", "llm_response"),
                     IF flags.output_file THEN eff \o <<"llm", "llm_save">>
                     ELSE Append(eff, "llm"),
                     flags.output_file)
    ELSE KokoroSteps(in, flags, st, Append(eff, "llm"), flags.output_file)

\* handle_transcription in single-shot mode (lines 153-218): clipboard copy,
\* file output, exit command, language model, speech output
SingleShotSteps(in, flags, result, st, eff) ==
    LET eff1 == IF flags.copy_to_clipboard THEN Append(eff, "clipboard_copy") ELSE eff
        st1  == IF flags.copy_to_clipboard
                THEN UpdateStatus(flags, st, "complete", "Ready to paste from clipboard")
                ELSE st
        eff2 == IF flags.output_file THEN Append(eff1, "file_save") ELSE eff1
        eff3 == Append(eff2, "exit_check")
    IN  IF flags.copy_to_clipboard /\ in.clipboard = "raises"
        THEN Outcome(TRUE, "Failed to copy to clipboard",
                     UpdateStatus(flags, st, "error", "Failed to copy to clipboard"), eff1)
        ELSE IF check_exit_command(result)
        THEN Outcome(FALSE, None, st1, eff3)
        ELSE LlmSteps(in, flags, st1, eff3)

\* handle_transcription from the transcription on (lines 100-151)
TranscriptionSteps(in, flags, st, eff) ==
    LET st1    == UpdateStatus(flags, st, "processing", "Processing your request...")
        eff1   == Append(eff, "transcribe_audio")
        result == transcribe_audio(in.heard)
        text   == get_transcribed_text(result)
    IN  IF result.is_none
        THEN Outcome(TRUE, "Transcription failed",
                     UpdateStatus(flags, st1, "error", "Transcription failed"), eff1)
        ELSE IF result.validation_error # None
        THEN Outcome(TRUE, result.validation_error,
                     UpdateStatus(flags, st1, "error", result.validation_error), eff1)
        ELSE IF text = << >>
        THEN Outcome(TRUE, "No text transcribed",
                     UpdateStatus(flags, st1, "error", "No text transcribed"), eff1)
        ELSE IF flags.chat_handler
        THEN ChatModeSteps(in, flags, text, st1, eff1)
        ELSE SingleShotSteps(in, flags, result, st1, eff1)

\* handle_transcription after recorder.set_status_callback (lines 77-218)
HandleTranscriptionBody(in, flags) ==
    IF in.stop
    THEN Outcome(FALSE, "Recording stopped", << >>, <<"calibrate">>)
    ELSE IF in.audio = "read_fails"
    THEN Outcome(TRUE, "Failed to record audio",
                 UpdateStatus(flags, << >>, "error", "Failed to record audio"),
                 <<"calibrate", "record_audio">>)
    ELSE IF in.audio = "unprocessable"
    THEN Outcome(TRUE, "Failed to process audio frames",
                 UpdateStatus(flags, << >>, "error", "Failed to process audio frames"),
                 <<"calibrate", "record_audio", "process_audio_frames">>)
    ELSE TranscriptionSteps(in, flags, << >>,
                            <<"calibrate", "record_audio", "process_audio_frames">>)

\* the events the cycle's statuses put on the session's queue
StatusEvents(sid, st) ==
    [i \in 1..Len(st) |-> StatusEvent(sid, st[i].status, st[i].message, NoProgress)]

(* ------------------------------------------------------------------ *)
(* ChatHandler, ChatHistory, MLXWToLLM.process_chat                     *)
(* ------------------------------------------------------------------ *)

\* most calls of process_message on one chat handler
MaxTurns == 2

NoText == << >>

Message(role, content) == [role |-> role, content |-> content]

\* texts handed to process_message
Said_Stop == <<"S", "T", "O", "P">>
Said_Quit == <<"q", "u", "i", "t">>
Said_StopIt == <<"s", "t", "o", "p", " ", "i", "t">>
Said_Blank == <<" ">>
ChatTexts == {Heard_Exit, Said_Stop, Said_Quit, Said_StopIt, Heard_Speech, Said_Blank, NoText}

\* start_new_chat's initial_prompt
InitialPrompt == <<"A", "n", "a", "l", "y", "z", "e">>

DocContent == <<"d", "o", "c">>

\* "<<START OF DOCUMENT>>\n{doc_content}\n<<END OF DOCUMENT>>"
WrapDocument(content) == <<"<", "<", "S", ">", ">">> \o content \o <<"<", "<", "E", ">", ">">>

ReplyText == <<"H", "i">>

\* the flags of process_message
PmFlags(k, st, sv) == [use_kokoro |-> k, stream_to_speakers |-> st, save_to_file |-> sv]
PmFlagSets == {PmFlags(k, st, sv) : k \in BOOLEAN, st \in BOOLEAN, sv \in BOOLEAN}
PmDefaultFlags == PmFlags(FALSE, FALSE, TRUE)

\* the pair process_message returns
PmReturn(cont, response) ==
    [continue |-> cont, has_response |-> response # NoText, response |-> response]

\* what one call of process_chat's request gives: a failure (exception, status
\* other than 200, malformed body), or a body with the reply and perhaps an id
LlmFailure == [ok |-> FALSE, text |-> NoText, id |-> None]
LlmReply(text, id) == [ok |-> TRUE, text |-> text, id |-> id]
LlmOutcomes ==
    {LlmFailure, LlmReply(ReplyText, "c1"), LlmReply(ReplyText, None), LlmReply(NoText, "c1")}

SystemMessages(msgs) == SelectSeq(msgs, LAMBDA m : m.role = "system")
Conversation(msgs) == SelectSeq(msgs, LAMBDA m : m.role # "system")

\* MLXWToLLM._validate_messages
validate_messages(msgs) ==
    /\ msgs # << >>
    /\ \A i \in 1..Len(msgs) :
         /\ msgs[i].role \in {"system", "user", "assistant"}
         /\ Strip(msgs[i].content) # NoText
    /\ SystemMessages(msgs) # << >>
          => (CHOOSE i \in 1..Len(msgs) :
                 /\ msgs[i] = SystemMessages(msgs)[1]
                 /\ \A j \in 1..(i - 1) : msgs[j] # SystemMessages(msgs)[1]) = 1

OrderedMessages_newfirst(text, history) ==
    SystemMessages(history) \o <<Message("user", text)>> \o Conversation(history)
\* the order _prepare_messages builds: system messages, then the conversation,
\* then the current message
OrderedMessages(text, history) ==
    SystemMessages(history) \o Conversation(history) \o <<Message("user", text)>>

\* MLXWToLLM._prepare_messages: the list to post, empty when there is nothing
\* to post
prepare_messages(text, history) ==
    LET msgs == OrderedMessages(text, history)
    IN  IF Strip(text) = NoText THEN << >>
        ELSE IF ~validate_messages(msgs) THEN << >>
        ELSE msgs

\* process_chat up to its request: the message list it posts, empty when it
\* returns (None, None) without a request
process_chat_request(text, history) ==
    IF text = NoText THEN << >> ELSE prepare_messages(text, history)

NextAfterLlm_nocheck(chat_id, result) ==
    IF chat_id # None THEN "add_user" ELSE "initialize"
\* process_message after process_chat returned: the history is touched only
\* `if response_text and llm_response`, and without a response text the call
\* returns (True, None)
NextAfterLlm(chat_id, result) ==
    IF result.ok /\ result.text # NoText
    THEN (IF chat_id # None THEN "add_user" ELSE "initialize")
    ELSE "return_none"

\* ChatHistory.save_history: nothing without a chat id, else the file is
\* written unless the write fails
save_history(files, chat_id, msgs, write_ok) ==
    IF chat_id = None \/ ~write_ok THEN files
    ELSE [k \in (DOMAIN files) \cup {chat_id} |-> IF k = chat_id THEN msgs ELSE files[k]]

\* the parameters of KokoroHandler.stream_text_to_speakers besides self, and
\* the arguments process_message passes to it
StreamTextToSpeakersParams == {"text", "optimize"}
StreamCallArgs == {"text", "optimize", "save_to_file"}

\* the speech-synthesis requests of process_message (lines 95-121): a call
\* with an argument the method does not declare raises TypeError before any
\* request, and the exception is logged
TtsRequests(flags) ==
    IF ~(flags.use_kokoro \/ flags.stream_to_speakers) THEN << >>
    ELSE IF flags.stream_to_speakers
    THEN (IF StreamCallArgs \subseteq StreamTextToSpeakersParams
          THEN <<"stream_text_to_speakers">> ELSE << >>)
    ELSE IF flags.save_to_file THEN <<"convert_text_to_speech">>
    ELSE << >>

\* where the audio of a synthesis call goes
SinkOf(call) == IF call = "stream_text_to_speakers" THEN "speakers" ELSE "file"

\* process_message from its start to its return or to the language-model
\* request
ProcessMessageCall(text, flags, history) ==
    /\ pm_text' = text
    /\ pm_flags' = flags
    /\ turns' = turns + 1
    /\ IF IsExitPhrase(text)
       THEN /\ pm_ret' = PmReturn(FALSE, NoText)
            /\ chat_pc' = "idle"
            /\ UNCHANGED llm_requests
       ELSE IF process_chat_request(text, history) = << >>
       THEN /\ pm_ret' = PmReturn(TRUE, NoText)
            /\ chat_pc' = "idle"
            /\ UNCHANGED llm_requests
       ELSE /\ llm_requests' = Append(llm_requests, process_chat_request(text, history))
            /\ chat_pc' = "llm_wait"
            /\ UNCHANGED pm_ret

\* the answer to a start request
StartResult(chat_id, code) == [chat_id |-> chat_id, code |-> code]

RegisterQueue_never(queues, sid) == queues
\* `session_queues[session_id] = status_queue`, the handlers' first statement
\* after the session id is drawn
RegisterQueue(queues, sid) == queues \cup {sid}

\* `del session_queues[session_id]`: KeyError when the key is absent
DelKey(queues, sid) ==
    IF sid \in queues THEN [queues |-> queues \ {sid}, raised |-> FALSE]
    ELSE [queues |-> queues, raised |-> TRUE]

CleanupSession_nocheck(queues, sid) ==
    IF sid = None THEN [queues |-> {}, raised |-> FALSE]
    ELSE DelKey(queues, sid)
\* cleanup_session(session_id) run by one caller without interruption: every
\* queue is dropped when no id is given, else the id's queue if it is there
CleanupSession(queues, sid) ==
    IF sid = None THEN [queues |-> {}, raised |-> FALSE]
    ELSE IF sid \in queues THEN DelKey(queues, sid)
    ELSE [queues |-> queues, raised |-> FALSE]

FailedStart_leak(queues, sid) == RegisterQueue(queues, sid)
\* session_queues when a start handler returns an error response: the queue
\* it registered is cleaned up first
FailedStart(queues, sid) == CleanupSession(RegisterQueue(queues, sid), sid).queues
NoStart == StartResult(None, 0)

\* POST /copy/start: registers the queue and starts the task, or fails in setup
\* and releases the queue again
start_recording(s) ==
    /\ task_pc[s] = "none"
    /\ \E outcome \in {"started", "exception"} :
         IF outcome = "started"
         THEN /\ session_queues' = RegisterQueue(session_queues, s)
              /\ task_pc' = [task_pc EXCEPT ![s] = "task_started"]
              /\ task_kind' = [task_kind EXCEPT ![s] = "copy"]
              /\ start_result' = [start_result EXCEPT ![s] = StartResult(None, 200)]
              /\ \E in \in CycleInputs : cycle_in' = [cycle_in EXCEPT ![s] = in]
         ELSE /\ session_queues' = FailedStart(session_queues, s)
              /\ task_pc' = [task_pc EXCEPT ![s] = "start_failed"]
              /\ start_result' = [start_result EXCEPT ![s] = StartResult(None, 500)]
              /\ UNCHANGED <<task_kind, cycle_in>>
    /\ UNCHANGED <<status_queue, published, last_status, releases, task_doc, ht_exc,
                   ht_ret, ht_effects>>
    /\ UNCHANGED <<unitVars, connVars, trVars, recVars, calVars, chatVars, obsVars, pollVars>>

\* the query parameters of POST /chat/start and what the setup meets: mode is
\* one of the three modes or not, doc is absent, a path that validates or one
\* that does not, chat_id is absent or names a chat, the history file can be
\* read or not, and a constructor of the handlers raises or not
StartChatRequests ==
    [mode_ok : BOOLEAN, doc : {"none", "valid", "invalid"},
     chat_id : {None, "c0", "c1"}, read_ok : BOOLEAN, raises : BOOLEAN]

\* ChatHistory.load_history succeeds: the file exists and can be read
LoadSucceeds(files, chat_id, read_ok) == chat_id \in DOMAIN files /\ read_ok

\* the document path start_chat hands to start_new_chat: the call is
\* `chat_handler.start_new_chat()`
StartNewChatDocArg(req) == NoText

StartChatCode_nocheck(req, files) ==
    IF ~req.mode_ok THEN 400
    ELSE IF req.raises THEN 500
    ELSE IF req.doc = "invalid" THEN 400
    ELSE 200
\* the HTTP status of POST /chat/start
StartChatCode(req, files) ==
    IF ~req.mode_ok THEN 400
    ELSE IF req.raises THEN 500
    ELSE IF req.doc = "invalid" THEN 400
    ELSE IF req.chat_id # None /\ ~LoadSucceeds(files, req.chat_id, req.read_ok) THEN 404
    ELSE 200

\* ChatHistory.load_history(chat_id) on the chat state: the stored messages
\* become the history, or nothing changes
LoadHistory(chat_id, read_ok) ==
    IF LoadSucceeds(chat_files, chat_id, read_ok)
    THEN /\ messages' = chat_files[chat_id]
         /\ current_chat_id' = chat_id
    ELSE UNCHANGED <<messages, current_chat_id>>

\* ChatHandler.start_new_chat(doc_path) on the chat state
StartNewChat(doc) ==
    /\ current_chat_id' = None
    /\ IF doc = NoText
       THEN /\ messages' = << >>
            /\ UNCHANGED <<pm_text, pm_flags, pm_ret, llm_requests, chat_pc, turns>>
       ELSE /\ messages' = <<Message("system", WrapDocument(doc))>>
            /\ ProcessMessageCall(InitialPrompt, PmDefaultFlags, messages')
    /\ chat_files' = save_history(chat_files, None, messages', TRUE)
    /\ UNCHANGED <<llm_result, llm_output_file, tts_calls>>

\* POST /chat/start: registers the queue, checks mode and document, loads the
\* chat named by chat_id or starts a new one, and starts the task; every
\* failure releases the queue again
start_chat(s) ==
    /\ task_pc[s] = "none"
    /\ chat_pc = "idle"
    /\ \E req \in StartChatRequests :
         /\ start_result' = [start_result EXCEPT
                               ![s] = StartResult(req.chat_id, StartChatCode(req, chat_files))]
         /\ IF StartChatCode(req, chat_files) = 200
            THEN /\ session_queues' = RegisterQueue(session_queues, s)
                 /\ task_pc' = [task_pc EXCEPT ![s] = "task_started"]
                 /\ task_kind' = [task_kind EXCEPT ![s] = "chat"]
                 /\ task_doc' = [task_doc EXCEPT ![s] = (req.doc = "valid")]
                 /\ \E in \in CycleInputs : cycle_in' = [cycle_in EXCEPT ![s] = in]
                 /\ IF req.chat_id # None
                    THEN /\ LoadHistory(req.chat_id, req.read_ok)
                         /\ UNCHANGED <<chat_pc, chat_files, pm_text, pm_flags, pm_ret,
                                        llm_requests, llm_result, llm_output_file,
                                        tts_calls, turns>>
                    ELSE StartNewChat(StartNewChatDocArg(req))
            ELSE /\ session_queues' = FailedStart(session_queues, s)
                 /\ task_pc' = [task_pc EXCEPT ![s] = "start_failed"]
                 /\ UNCHANGED <<task_kind, task_doc, cycle_in>>
                 /\ UNCHANGED chatVars
    /\ UNCHANGED <<status_queue, published, last_status, releases, ht_exc,
                   ht_ret, ht_effects>>
    /\ UNCHANGED <<unitVars, connVars, trVars, recVars, calVars, obsVars, pollVars>>

\* background_transcription enters `with recorder`; start_chat's task first
\* publishes the document status
background_transcription_begin(s) ==
    /\ task_pc[s] = "task_started"
    /\ IF task_kind[s] = "chat" /\ task_doc[s]
       THEN Publish(s, "processing", "Loading document context", NoProgress)
       ELSE UNCHANGED <<status_queue, published>>
    /\ task_pc' = [task_pc EXCEPT ![s] = "call_ht"]
    /\ UNCHANGED <<session_queues, last_status, releases, task_kind, task_doc, start_result,
                   ht_exc>>
    /\ UNCHANGED <<unitVars, connVars, trVars, recVars, calVars, chatVars, obsVars, pollVars>>
    /\ UNCHANGED cycleVars

\* the call of handle_transcription binds its arguments: an argument the
\* function does not declare raises TypeError
handle_transcription_call(s) ==
    /\ task_pc[s] = "call_ht"
    /\ IF CallArgs(task_kind[s]) \subseteq HandleTranscriptionParams
       THEN /\ task_pc' = [task_pc EXCEPT ![s] = "ht_set_status_callback"]
            /\ ht_exc' = ht_exc
       ELSE /\ task_pc' = [task_pc EXCEPT ![s] = "ht_raised"]
            /\ ht_exc' = [ht_exc EXCEPT ![s] = "TypeError"]
    /\ UNCHANGED <<session_queues, status_queue, published, last_status, releases,
                   task_kind, task_doc, start_result>>
    /\ UNCHANGED <<unitVars, connVars, trVars, recVars, calVars, chatVars, obsVars, pollVars>>
    /\ UNCHANGED cycleVars

\* handle_transcription's first statement, recorder.set_status_callback(...),
\* raises AttributeError on a recorder without that method; otherwise the rest
\* of the cycle runs and the task ends
handle_transcription_set_status_callback(s) ==
    /\ task_pc[s] = "ht_set_status_callback"
    /\ IF "set_status_callback" \in AudioRecorderAttrs
       THEN LET out == HandleTranscriptionBody(cycle_in[s], TaskFlags(task_kind[s])) IN
            /\ status_queue' = [status_queue EXCEPT
                                  ![s] = @ \o StatusEvents(s, out.statuses)]
            /\ published' = [published EXCEPT ![s] = @ \o StatusEvents(s, out.statuses)]
            /\ ht_ret' = [ht_ret EXCEPT ![s] =
                             [returned |-> TRUE, continue |-> out.continue,
                              error_message |-> out.error_message]]
            /\ ht_effects' = [ht_effects EXCEPT ![s] = out.effects]
            /\ task_pc' = [task_pc EXCEPT ![s] = "ended"]
            /\ ht_exc' = ht_exc
       ELSE /\ task_pc' = [task_pc EXCEPT ![s] = "ht_raised"]
            /\ ht_exc' = [ht_exc EXCEPT ![s] = "AttributeError"]
            /\ UNCHANGED <<status_queue, published, ht_ret, ht_effects>>
    /\ UNCHANGED <<session_queues, last_status, releases, task_kind, task_doc, start_result,
                   cycle_in>>
    /\ UNCHANGED <<unitVars, connVars, trVars, recVars, calVars, chatVars, obsVars, pollVars>>

\* start_recording's task has no handler: the exception leaves `with recorder`
\* and ends the thread
copy_task_dies(s) ==
    /\ task_pc[s] = "ht_raised"
    /\ task_kind[s] = "copy"
    /\ task_pc' = [task_pc EXCEPT ![s] = "ended"]
    /\ UNCHANGED <<session_queues, status_queue, published, last_status, releases,
                   task_kind, task_doc, start_result,
                   ht_exc>>
    /\ UNCHANGED <<unitVars, connVars, trVars, recVars, calVars, chatVars, obsVars, pollVars>>
    /\ UNCHANGED cycleVars

\* start_chat's task catches the exception and publishes an error status
chat_task_reports_error(s) ==
    /\ task_pc[s] = "ht_raised"
    /\ task_kind[s] = "chat"
    /\ Publish(s, "error", "Error in background transcription", NoProgress)
    /\ task_pc' = [task_pc EXCEPT ![s] = "ended"]
    /\ UNCHANGED <<session_queues, last_status, releases, task_kind, task_doc, start_result,
                   ht_exc>>
    /\ UNCHANGED <<unitVars, connVars, trVars, recVars, calVars, chatVars, obsVars, pollVars>>
    /\ UNCHANGED cycleVars

(* ------------------------------------------------------------------ *)
(* cleanup_session, stream_status.generate, current_status              *)
(* ------------------------------------------------------------------ *)

\* a client holds a session id once a start request has returned it
SessionIdKnown(s) == task_pc[s] \notin {"none", "start_failed"}

Deliver(o, msg) == delivered' = [delivered EXCEPT ![o] = Append(@, msg)]

\* generate() up to its first yield: the queue lookup, then the "Session not
\* found" error or the retry message
stream_status_open(o, s) ==
    /\ obs_pc[o] = "idle"
    /\ SessionIdKnown(s)
    /\ obs_sid' = [obs_sid EXCEPT ![o] = s]
    /\ IF s \in session_queues
       THEN /\ Deliver(o, format_sse(EmptyData, None, SSE_RETRY_TIMEOUT))
            /\ obs_pc' = [obs_pc EXCEPT ![o] = "yield_retry"]
            /\ last_status' = last_status
       ELSE /\ last_status' = update_last_status(last_status, s, SessionNotFound(s))
            /\ Deliver(o, format_sse(SessionNotFound(s), None, NoRetry))
            /\ obs_pc' = [obs_pc EXCEPT ![o] = "yield_not_found"]
    /\ UNCHANGED <<session_queues, status_queue, published, releases, task_pc,
                   task_kind, task_doc, start_result,
                   ht_exc>>
    /\ UNCHANGED <<obs_event, obs_site, obs_exc, obs_keepalives>>
    /\ UNCHANGED <<unitVars, connVars, trVars, recVars, calVars, chatVars, pollVars>>
    /\ UNCHANGED cycleVars

YieldPcs == {"yield_retry", "yield_not_found", "yield_event", "yield_keepalive",
             "yield_error"}

\* the client takes the yielded message and the generator runs on
stream_status_resume(o) ==
    /\ obs_pc[o] \in YieldPcs
    /\ IF obs_pc[o] = "yield_not_found"
       THEN /\ obs_pc' = [obs_pc EXCEPT ![o] = "closed"]
            /\ obs_site' = obs_site
       ELSE IF obs_pc[o] = "yield_event" /\ IsTerminal(obs_event[o].data.status)
       THEN /\ obs_pc' = [obs_pc EXCEPT ![o] = "cleanup_check"]
            /\ obs_site' = [obs_site EXCEPT ![o] = 108]
       ELSE IF obs_pc[o] = "yield_error"
       THEN /\ obs_pc' = [obs_pc EXCEPT ![o] = "cleanup_check"]
            /\ obs_site' = [obs_site EXCEPT ![o] = 146]
       ELSE /\ obs_pc' = [obs_pc EXCEPT ![o] = "get"]
            /\ obs_site' = obs_site
    /\ UNCHANGED <<obs_sid, obs_event, obs_exc, obs_keepalives, delivered>>
    /\ UNCHANGED <<unitVars, connVars, trVars, recVars, calVars, chatVars, sessVars, pollVars>>

\* the client disconnects while the generator is suspended at a yield:
\* GeneratorExit is raised there. Inside the `except Exception` handler it is
\* not caught; everywhere else `except GeneratorExit` calls cleanup_session
stream_status_disconnect(o) ==
    /\ obs_pc[o] \in YieldPcs
    /\ IF obs_pc[o] = "yield_error"
       THEN /\ obs_pc' = [obs_pc EXCEPT ![o] = "closed"]
            /\ obs_site' = obs_site
       ELSE /\ obs_pc' = [obs_pc EXCEPT ![o] = "cleanup_check"]
            /\ obs_site' = [obs_site EXCEPT ![o] = 134]
    /\ UNCHANGED <<obs_sid, obs_event, obs_exc, obs_keepalives, delivered>>
    /\ UNCHANGED <<unitVars, connVars, trVars, recVars, calVars, chatVars, sessVars, pollVars>>

\* queue.get(timeout=SSE_KEEPALIVE_TIMEOUT) returns an event
stream_status_get(o) ==
    /\ obs_pc[o] = "get"
    /\ status_queue[obs_sid[o]] # << >>
    /\ obs_event' = [obs_event EXCEPT ![o] = Head(status_queue[obs_sid[o]])]
    /\ status_queue' = [status_queue EXCEPT ![obs_sid[o]] = Tail(@)]
    /\ obs_pc' = [obs_pc EXCEPT ![o] = "got"]
    /\ UNCHANGED <<session_queues, published, last_status, releases, task_pc,
                   task_kind, task_doc, start_result,
                   ht_exc>>
    /\ UNCHANGED <<obs_sid, obs_site, obs_exc, obs_keepalives, delivered>>
    /\ UNCHANGED <<unitVars, connVars, trVars, recVars, calVars, chatVars, pollVars>>
    /\ UNCHANGED cycleVars

\* validate, update_last_status, yield the event
stream_status_deliver(o) ==
    /\ obs_pc[o] = "got"
    /\ LET d == obs_event[o].data IN
         IF validate_status_event(d.status, d.message, d.progress)
         THEN /\ last_status' = update_last_status(last_status, obs_sid[o], d)
              /\ Deliver(o, format_sse(d, obs_event[o].event, NoRetry))
              /\ obs_pc' = [obs_pc EXCEPT ![o] = "yield_event"]
         ELSE /\ obs_pc' = [obs_pc EXCEPT ![o] = "get"]
              /\ UNCHANGED <<last_status, delivered>>
    /\ UNCHANGED <<session_queues, status_queue, published, releases, task_pc,
                   task_kind, task_doc, start_result,
                   ht_exc>>
    /\ UNCHANGED <<obs_sid, obs_event, obs_site, obs_exc, obs_keepalives>>
    /\ UNCHANGED <<unitVars, connVars, trVars, recVars, calVars, chatVars, pollVars>>
    /\ UNCHANGED cycleVars

\* queue.get timed out (Empty): yield a keepalive built from get_last_status
stream_status_keepalive(o) ==
    /\ obs_pc[o] = "get"
    /\ status_queue[obs_sid[o]] = << >>
    /\ obs_keepalives[o] < MaxKeepalives
    /\ Deliver(o, format_sse(KeepaliveData(obs_sid[o], last_status), None, NoRetry))
    /\ obs_keepalives' = [obs_keepalives EXCEPT ![o] = @ + 1]
    /\ obs_pc' = [obs_pc EXCEPT ![o] = "yield_keepalive"]
    /\ UNCHANGED <<obs_sid, obs_event, obs_site, obs_exc>>
    /\ UNCHANGED <<unitVars, connVars, trVars, recVars, calVars, chatVars, sessVars, pollVars>>

\* cleanup_session: `if session_id in session_queues:`
cleanup_session_check(o) ==
    /\ obs_pc[o] = "cleanup_check"
    /\ obs_pc' = [obs_pc EXCEPT ![o] =
                    IF obs_sid[o] \in session_queues THEN "cleanup_del" ELSE "closed"]
    /\ UNCHANGED <<obs_sid, obs_event, obs_site, obs_exc, obs_keepalives, delivered>>
    /\ UNCHANGED <<unitVars, connVars, trVars, recVars, calVars, chatVars, sessVars, pollVars>>

\* cleanup_session: `del session_queues[session_id]`; KeyError if the key has
\* gone since the check. Raised from line 108 it reaches `except Exception`,
\* which records and yields an error; raised from the handlers it leaves the
\* generator
cleanup_session_del(o) ==
    /\ obs_pc[o] = "cleanup_del"
    /\ IF obs_sid[o] \in session_queues
       THEN /\ session_queues' = session_queues \ {obs_sid[o]}
            /\ releases' = [releases EXCEPT ![obs_sid[o]] = @ + 1]
            /\ obs_pc' = [obs_pc EXCEPT ![o] = "closed"]
            /\ UNCHANGED <<last_status, delivered, obs_exc>>
       ELSE /\ obs_exc' = [obs_exc EXCEPT ![o] = @ \cup {obs_site[o]}]
            /\ UNCHANGED <<session_queues, releases>>
            /\ IF obs_site[o] = 108
               THEN /\ last_status' = update_last_status(last_status, obs_sid[o],
                                          StreamError(obs_sid[o], "KeyError"))
                    /\ Deliver(o, format_sse(StreamError(obs_sid[o], "KeyError"),
                                             None, NoRetry))
                    /\ obs_pc' = [obs_pc EXCEPT ![o] = "yield_error"]
               ELSE /\ obs_pc' = [obs_pc EXCEPT ![o] = "crashed"]
                    /\ UNCHANGED <<last_status, delivered>>
    /\ UNCHANGED <<status_queue, published, task_pc, task_kind, task_doc, start_result,
                   ht_exc>>
    /\ UNCHANGED <<obs_sid, obs_event, obs_site, obs_keepalives>>
    /\ UNCHANGED <<unitVars, connVars, trVars, recVars, calVars, chatVars, pollVars>>
    /\ UNCHANGED cycleVars

\* GET /current/<session_id>: the lookup, then get_nowait or the last known status
current_status_get(s) ==
    /\ poll_pc = "idle"
    /\ SessionIdKnown(s)
    /\ poll_sid' = s
    /\ IF s \notin session_queues
       THEN /\ poll_response' = SessionNotFound(s)
            /\ UNCHANGED <<poll_pc, poll_event, status_queue>>
       ELSE IF status_queue[s] # << >>
       THEN /\ poll_event' = Head(status_queue[s])
            /\ status_queue' = [status_queue EXCEPT ![s] = Tail(@)]
            /\ poll_pc' = "got"
            /\ poll_response' = poll_response
       ELSE /\ poll_response' = IF s \in DOMAIN last_status
                                THEN last_status[s] ELSE UnknownStatus(s)
            /\ UNCHANGED <<poll_pc, poll_event, status_queue>>
    /\ UNCHANGED <<session_queues, published, last_status, releases, task_pc,
                   task_kind, task_doc, start_result,
                   ht_exc>>
    /\ UNCHANGED <<unitVars, connVars, trVars, recVars, calVars, chatVars, obsVars>>
    /\ UNCHANGED cycleVars

\* update_last_status(session_id, event_data["data"]) and the response
current_status_respond ==
    /\ poll_pc = "got"
    /\ last_status' = update_last_status(last_status, poll_sid, poll_event.data)
    /\ poll_response' = poll_event.data
    /\ poll_pc' = "idle"
    /\ UNCHANGED <<session_queues, status_queue, published, releases, task_pc,
                   task_kind, task_doc, start_result,
                   ht_exc>>
    /\ UNCHANGED <<poll_sid, poll_event>>
    /\ UNCHANGED <<unitVars, connVars, trVars, recVars, calVars, chatVars, obsVars>>
    /\ UNCHANGED cycleVars

(* ------------------------------------------------------------------ *)
(* ChatHandler: the steps of a chat turn                                *)
(* ------------------------------------------------------------------ *)

\* a caller hands a text to process_message
process_message(text, flags) ==
    /\ chat_pc = "idle"
    /\ turns < MaxTurns
    /\ ProcessMessageCall(text, flags, messages)
    /\ UNCHANGED <<current_chat_id, messages, chat_files, llm_result, llm_output_file,
                   tts_calls>>
    /\ UNCHANGED <<unitVars, connVars, trVars, recVars, calVars, sessVars, obsVars, pollVars>>

\* the language-model request ends; process_chat saves a reply and returns
process_chat_returns(result) ==
    /\ chat_pc = "llm_wait"
    /\ llm_result' = result
    /\ llm_output_file' = IF result.ok THEN result.text ELSE llm_output_file
    /\ IF NextAfterLlm(current_chat_id, result) = "return_none"
       THEN /\ pm_ret' = PmReturn(TRUE, NoText)
            /\ chat_pc' = "idle"
       ELSE /\ chat_pc' = NextAfterLlm(current_chat_id, result)
            /\ UNCHANGED pm_ret
    /\ UNCHANGED <<current_chat_id, messages, chat_files, pm_text, pm_flags,
                   llm_requests, tts_calls, turns>>
    /\ UNCHANGED <<unitVars, connVars, trVars, recVars, calVars, sessVars, obsVars, pollVars>>

\* chat_history.add_message("user", text): append and save
add_message_user(write_ok) ==
    /\ chat_pc = "add_user"
    /\ messages' = Append(messages, Message("user", pm_text))
    /\ chat_files' = save_history(chat_files, current_chat_id, messages', write_ok)
    /\ chat_pc' = "add_assistant"
    /\ UNCHANGED <<current_chat_id, pm_text, pm_flags, pm_ret, llm_requests, llm_result,
                   llm_output_file, tts_calls, turns>>
    /\ UNCHANGED <<unitVars, connVars, trVars, recVars, calVars, sessVars, obsVars, pollVars>>

\* chat_history.add_message("assistant", response_text): append and save
add_message_assistant(write_ok) ==
    /\ chat_pc = "add_assistant"
    /\ messages' = Append(messages, Message("assistant", llm_result.text))
    /\ chat_files' = save_history(chat_files, current_chat_id, messages', write_ok)
    /\ chat_pc' = "tts"
    /\ UNCHANGED <<current_chat_id, pm_text, pm_flags, pm_ret, llm_requests, llm_result,
                   llm_output_file, tts_calls, turns>>
    /\ UNCHANGED <<unitVars, connVars, trVars, recVars, calVars, sessVars, obsVars, pollVars>>

InitializedMessages_reset(msgs, user_message, reply) ==
    <<Message("user", user_message), Message("assistant", reply)>>
\* new_messages of initialize_from_llm_response: the system messages kept, then
\* the first exchange
InitializedMessages(msgs, user_message, reply) ==
    SystemMessages(msgs) \o <<Message("user", user_message), Message("assistant", reply)>>

\* chat_history.initialize_from_llm_response(llm_response, text)
initialize_from_llm_response(write_ok) ==
    /\ chat_pc = "initialize"
    /\ IF llm_result.id = None
       THEN UNCHANGED <<current_chat_id, messages, chat_files>>
       ELSE /\ current_chat_id' = llm_result.id
            /\ messages' = InitializedMessages(messages, pm_text, llm_result.text)
            /\ chat_files' = save_history(chat_files, current_chat_id', messages', write_ok)
    /\ chat_pc' = "tts"
    /\ UNCHANGED <<pm_text, pm_flags, pm_ret, llm_requests, llm_result,
                   llm_output_file, tts_calls, turns>>
    /\ UNCHANGED <<unitVars, connVars, trVars, recVars, calVars, sessVars, obsVars, pollVars>>

\* the text-to-speech part of process_message and its return
process_message_returns ==
    /\ chat_pc = "tts"
    /\ tts_calls' = tts_calls \o TtsRequests(pm_flags)
    /\ pm_ret' = PmReturn(TRUE, llm_result.text)
    /\ chat_pc' = "idle"
    /\ UNCHANGED <<current_chat_id, messages, chat_files, pm_text, pm_flags,
                   llm_requests, llm_result, llm_output_file, turns>>
    /\ UNCHANGED <<unitVars, connVars, trVars, recVars, calVars, sessVars, obsVars, pollVars>>

\* ChatHandler.start_new_chat(doc_path): a fresh history; with a readable
\* document the system message, save_history (no chat id yet) and the initial
\* analysis request through process_message
start_new_chat(doc) ==
    /\ chat_pc = "idle"
    /\ turns < MaxTurns
    /\ StartNewChat(doc)
    /\ UNCHANGED <<unitVars, connVars, trVars, recVars, calVars, sessVars, obsVars, pollVars>>

\* ChatHandler.load_existing_chat(chat_id): the stored messages become the
\* history if the file exists and can be read
load_existing_chat(chat_id, read_ok) ==
    /\ chat_pc = "idle"
    /\ LoadHistory(chat_id, read_ok)
    /\ UNCHANGED <<chat_pc, chat_files, pm_text, pm_flags, pm_ret, llm_requests,
                   llm_result, llm_output_file, tts_calls, turns>>
    /\ UNCHANGED <<unitVars, connVars, trVars, recVars, calVars, sessVars, obsVars, pollVars>>

\* longest message_history handed to process_chat
MaxHistory == 2

\* message lists of any roles, contents and order
HistoryRoles == {"system", "user", "assistant", "tool"}
HistoryContents == {ReplyText, Said_Blank}
HistoryMessages == {Message(r, c) : r \in HistoryRoles, c \in HistoryContents}
Histories == UNION {[1..n -> HistoryMessages] : n \in 0..MaxHistory}

\* MLXWToLLM.process_chat(text, message_history) up to its request; `messages`
\* is the message_history argument
process_chat_call(text) ==
    /\ chat_pc = "idle"
    /\ turns < MaxTurns
    /\ pm_text' = text
    /\ turns' = turns + 1
    /\ IF process_chat_request(text, messages) = << >>
       THEN /\ llm_result' = LlmFailure
            /\ UNCHANGED <<llm_requests, chat_pc>>
       ELSE /\ llm_requests' = Append(llm_requests, process_chat_request(text, messages))
            /\ chat_pc' = "llm_wait"
            /\ UNCHANGED llm_result
    /\ UNCHANGED <<current_chat_id, messages, chat_files, pm_flags, pm_ret,
                   llm_output_file, tts_calls>>
    /\ UNCHANGED <<unitVars, connVars, trVars, recVars, calVars, sessVars, obsVars, pollVars>>

\* process_chat from the answer of its request to its return
process_chat_respond(result) ==
    /\ chat_pc = "llm_wait"
    /\ llm_result' = result
    /\ llm_output_file' = IF result.ok THEN result.text ELSE llm_output_file
    /\ chat_pc' = "idle"
    /\ UNCHANGED <<current_chat_id, messages, chat_files, pm_text, pm_flags, pm_ret,
                   llm_requests, tts_calls, turns>>
    /\ UNCHANGED <<unitVars, connVars, trVars, recVars, calVars, sessVars, obsVars, pollVars>>

(* ------------------------------------------------------------------ *)
(* WhisperTranscriber called with any text                              *)
(* ------------------------------------------------------------------ *)

\* most words of a text
MaxWords == 3

TrWords == {<<"O", "k">>, <<"t", "h", "a", "n", "k">>, <<"y", "o", "u">>}

RECURSIVE JoinWords(_)
\* the words with one space between them
JoinWords(ws) ==
    IF ws = << >> THEN << >>
    ELSE IF Len(ws) = 1 THEN ws[1]
    ELSE ws[1] \o <<" ">> \o JoinWords(Tail(ws))

\* texts of up to MaxWords words, bare and with white space around them, and
\* the three utterances of the cycles
TrTexts ==
    LET bare == {JoinWords(ws) : ws \in UNION {[1..n -> TrWords] : n \in 0..MaxWords}}
    IN  bare \cup {<<" ">> \o t \o <<" ">> : t \in bare}
             \cup {Heard_Ok, Heard_Exit, Heard_Speech}

\* what transcribe_audio can be given
TrAudio == {EmptyAudio, ModelRaises} \cup {ModelReturns(t) : t \in TrTexts}

TrArg(heard, text) == [heard |-> heard, text |-> text]
TrRet(result, validation) == [result |-> result, validation |-> validation]
NoValidation == [is_valid |-> FALSE, error_message |-> None]

\* transcriber.transcribe_audio(audio_data)
transcribe_audio_call(heard) ==
    /\ tr_op' = "transcribe_audio"
    /\ tr_arg' = TrArg(heard, heard.text)
    /\ tr_ret' = TrRet(transcribe_audio(heard), NoValidation)
    /\ UNCHANGED <<unitVars, connVars, recVars, calVars, sessVars, obsVars, pollVars, chatVars>>

\* transcriber.validate_transcription(text)
validate_transcription_call(text) ==
    /\ tr_op' = "validate_transcription"
    /\ tr_arg' = TrArg(ModelReturns(text), text)
    /\ tr_ret' = TrRet(NoResult, validate_transcription(text))
    /\ UNCHANGED <<unitVars, connVars, recVars, calVars, sessVars, obsVars, pollVars, chatVars>>

(* ------------------------------------------------------------------ *)
(* handle_transcription: from record_audio's result to the transcriber  *)
(* ------------------------------------------------------------------ *)

NoAudio == [is_none |-> TRUE, data |-> << >>]

\* AudioRecorder.process_audio_frames: None for an empty list and when the
\* concatenation raises, else the frames joined
process_audio_frames(fr, joined) ==
    IF fr = << >> THEN NoAudio
    ELSE IF ~joined THEN NoAudio
    ELSE [is_none |-> FALSE, data |-> fr]

RecordedAudio_unchecked(fr, success, joined) == [is_none |-> FALSE, data |-> fr]
\* lines 84-97 of handle_transcription: `if not success or not frames` and
\* `if audio_data is None` return before the transcriber is called
RecordedAudio(fr, success, joined) ==
    IF ~success \/ fr = << >> THEN NoAudio
    ELSE process_audio_frames(fr, joined)

\* lines 84-105: the result of record_audio is checked, joined and handed to
\* transcriber.transcribe_audio
handle_transcription_transcribe ==
    /\ rec_pc = "returned"
    /\ \E joined \in BOOLEAN, heard \in {ModelRaises, ModelReturns(Heard_Speech)} :
         LET audio == RecordedAudio(frames, rec_success, joined)
             given == [heard EXCEPT !.empty = (Len(audio.data) = 0)]
         IN  IF audio.is_none
             THEN /\ tr_op' = "none"
                  /\ tr_arg' = TrArg(ModelRaises, << >>)
                  /\ tr_ret' = TrRet(NoResult, NoValidation)
             ELSE /\ tr_op' = "transcribe_audio"
                  /\ tr_arg' = TrArg(given, given.text)
                  /\ tr_ret' = TrRet(transcribe_audio(given), NoValidation)
    /\ rec_pc' = "idle"
    /\ UNCHANGED <<stream_open, silence_threshold, reads, frames, silent_chunks,
                   stdout_bar, rec_success, rec_status>>
    /\ UNCHANGED <<unitVars, connVars, calVars, chatVars, sessVars, obsVars, pollVars>>

(* ------------------------------------------------------------------ *)
(* cleanup_session called in sequence                                   *)
(* ------------------------------------------------------------------ *)

\* most calls of cleanup_session in a row with one session id
MaxCleanups == 3

\* the session ids of the start requests so far
SessionIds == {"s1", "s2", "s3", "s4"}

\* a start request registers the queue of a new session
register_queue(sid) ==
    /\ sid \notin session_queues
    /\ session_queues' = RegisterQueue(session_queues, sid)
    /\ cs_sid' = None
    /\ cs_calls' = 0
    /\ cs_before' = {}
    /\ cs_raised' = FALSE
    /\ UNCHANGED <<status_queue, published, last_status, releases, task_pc, task_kind,
                   task_doc, start_result, ht_exc, cycleVars>>
    /\ UNCHANGED <<with_pc, with_path, stream_closes, ht_flags>>
    /\ UNCHANGED <<connVars, trVars, recVars, calVars, chatVars, obsVars, pollVars>>

\* cleanup_session(session_id), run to its end
cleanup_session_call(sid) ==
    /\ sid = cs_sid => cs_calls < MaxCleanups
    /\ LET r == CleanupSession(session_queues, sid) IN
         /\ session_queues' = r.queues
         /\ cs_raised' = r.raised
    /\ cs_sid' = sid
    /\ cs_calls' = IF sid = cs_sid THEN cs_calls + 1 ELSE 1
    /\ cs_before' = IF sid = cs_sid THEN cs_before ELSE session_queues
    /\ UNCHANGED <<status_queue, published, last_status, releases, task_pc, task_kind,
                   task_doc, start_result, ht_exc, cycleVars>>
    /\ UNCHANGED <<with_pc, with_path, stream_closes, ht_flags>>
    /\ UNCHANGED <<connVars, trVars, recVars, calVars, chatVars, obsVars, pollVars>>

(* ------------------------------------------------------------------ *)
(* `with recorder:` in the background tasks                             *)
(* ------------------------------------------------------------------ *)

\* AudioRecorder.stop_stream: an open stream is stopped and closed and
\* self.stream set to None; nothing is done without a stream
stop_stream(open) == [open |-> FALSE, closes |-> IF open THEN 1 ELSE 0]

cleanup_leak(open) == [open |-> open, closes |-> 0]
\* AudioRecorder.cleanup, which __exit__ calls: stop_stream(), audio.terminate()
cleanup(open) == stop_stream(open)

\* AudioRecorder.__enter__: `return self`
recorder_enter ==
    /\ with_pc = "none"
    /\ with_pc' = "body"
    /\ UNCHANGED <<with_path, stream_closes, cs_sid, cs_calls, cs_before, cs_raised,
                   ht_flags>>
    /\ UNCHANGED <<connVars, trVars, recVars, calVars, chatVars, sessVars, obsVars,
                   pollVars>>

\* the recorder's calls inside the block, in handle_transcription's order:
\* one calibration, whose reads return data until one fails, and then, after
\* a calibration that read every frame or none, one recording
body_calibrate_start == with_pc = "body" /\ cal_pc = "idle" /\ calibrate_start
body_calibrate_read ==
    with_pc = "body" /\ calibrate_read /\ Len(background_frames') = cal_reads'
body_calibrate_finish == with_pc = "body" /\ calibrate_finish
body_calibrate_read_fails == with_pc = "body" /\ calibrate_read_fails
body_record_audio_start ==
    /\ with_pc = "body"
    /\ cal_pc = "returned"
    /\ cal_reads \in {0, CALIBRATION_FRAMES}
    /\ rec_pc = "idle"
    /\ record_audio_start
body_record_audio_read == with_pc = "body" /\ record_audio_read
body_record_audio_read_fails == with_pc = "body" /\ record_audio_read_fails

\* the block is left and AudioRecorder.__exit__ runs: handle_transcription has
\* returned (with or without an error message), or an exception leaves the
\* block from wherever it was raised
recorder_exit(path) ==
    /\ with_pc = "body"
    /\ path = "returned" => (cal_pc # "reading" /\ rec_pc # "reading")
    /\ LET r == cleanup(stream_open) IN
         /\ stream_open' = r.open
         /\ stream_closes' = stream_closes + r.closes
    /\ with_pc' = "exited"
    /\ with_path' = path
    /\ UNCHANGED <<silence_threshold, rec_pc, reads, frames, silent_chunks, stdout_bar,
                   rec_success, rec_status>>
    /\ UNCHANGED <<cs_sid, cs_calls, cs_before, cs_raised, ht_flags>>
    /\ UNCHANGED <<connVars, trVars, calVars, chatVars, sessVars, obsVars, pollVars>>

(* ------------------------------------------------------------------ *)
(* handle_transcription called with any mode flags                      *)
(* ------------------------------------------------------------------ *)

\* every combination of the mode flags of a call with a status callback
AllFlags ==
    [copy_to_clipboard : BOOLEAN, output_file : BOOLEAN, use_kokoro : BOOLEAN,
     use_llm : BOOLEAN, chat_handler : BOOLEAN, stream_to_speakers : BOOLEAN,
     save_to_file : BOOLEAN, status_callback : {TRUE}]

\* lines 77-218 of handle_transcription, run on a recorder that provides
\* set_status_callback: the statuses go to the session's queue
handle_transcription_body(s) ==
    /\ task_pc[s] = "ht_body"
    /\ LET out == HandleTranscriptionBody(cycle_in[s], ht_flags[s]) IN
         /\ status_queue' = [status_queue EXCEPT ![s] = @ \o StatusEvents(s, out.statuses)]
         /\ published' = [published EXCEPT ![s] = @ \o StatusEvents(s, out.statuses)]
         /\ ht_ret' = [ht_ret EXCEPT ![s] =
                          [returned |-> TRUE, continue |-> out.continue,
                           error_message |-> out.error_message]]
         /\ ht_effects' = [ht_effects EXCEPT ![s] = out.effects]
    /\ task_pc' = [task_pc EXCEPT ![s] = "ended"]
    /\ UNCHANGED <<session_queues, last_status, releases, task_kind, task_doc,
                   start_result, ht_exc, cycle_in>>
    /\ UNCHANGED <<unitVars, connVars, trVars, recVars, calVars, chatVars, obsVars,
                   pollVars>>

(* ------------------------------------------------------------------ *)
(* create_status_callback(...).status_update called with any arguments  *)
(* ------------------------------------------------------------------ *)

\* most events one session's callback is called for
MaxPublished == 2

\* the arguments of the calls: statuses the stream accepts, statuses only
\* STATUS_TYPES knows, an unknown status, and progress values in and out of
\* 0..100 and None
StatusUpdateCalls ==
    { [status |-> "silence", progress |-> 50],
      [status |-> "silence", progress |-> 101],
      [status |-> "silence", progress |-> NoProgress],
      [status |-> "processing", progress |-> NoProgress],
      [status |-> "doc_loading", progress |-> NoProgress],
      [status |-> "paused", progress |-> NoProgress],
      [status |-> "complete", progress |-> NoProgress] }

\* status_update(status, message, progress)
status_update(s, call) ==
    /\ Len(published[s]) < MaxPublished
    /\ Publish(s, call.status, "message", call.progress)
    /\ UNCHANGED <<session_queues, last_status, releases, task_pc, task_kind, task_doc,
                   start_result, ht_exc, cycleVars>>
    /\ UNCHANGED <<unitVars, connVars, trVars, recVars, calVars, chatVars, obsVars,
                   pollVars>>

(* ------------------------------------------------------------------ *)
(* api/connect.py: the blueprint create_app registers                   *)
(* ------------------------------------------------------------------ *)

\* requests the threaded server handles at the same time
Requests == {"r1", "r2"}

\* what the setup of a request meets before its recorder is used: 200 to go
\* on; /chat/start answers 400 for a bad mode or document and 404 for a chat
\* that cannot be loaded; a constructor that raises gives 500
SetupCodes(kind) == IF kind = "chat" THEN {200, 400, 404, 500} ELSE {200, 500}

\* POST /copy/start or POST /chat/start arrives and its handler runs up to
\* `with recorder`
connect_request(r) ==
    /\ conn_pc[r] = "none"
    /\ \E kind \in {"copy", "chat"} :
         /\ conn_kind' = [conn_kind EXCEPT ![r] = kind]
         /\ \E code \in SetupCodes(kind) :
              IF code = 200
              THEN /\ conn_pc' = [conn_pc EXCEPT ![r] = "calibrate"]
                   /\ UNCHANGED conn_code
              ELSE /\ conn_pc' = [conn_pc EXCEPT ![r] = "answered"]
                   /\ conn_code' = [conn_code EXCEPT ![r] = code]
    /\ UNCHANGED <<conn_stream, conn_reads>>
    /\ UNCHANGED <<unitVars, trVars, recVars, calVars, sessVars, obsVars, pollVars, chatVars>>

\* recorder.calibrate_silence_threshold() begins: start_stream opens the
\* request's own input stream, or audio.open raises and the handler answers 500
connect_calibrate_start(r) ==
    /\ conn_pc[r] = "calibrate"
    /\ \E outcome \in StartStreamOutcomes(conn_stream[r]) :
         IF outcome = "open"
         THEN /\ conn_stream' = [conn_stream EXCEPT ![r] = TRUE]
              /\ conn_reads' = [conn_reads EXCEPT ![r] = 0]
              /\ conn_pc' = [conn_pc EXCEPT ![r] = "calibrating"]
              /\ UNCHANGED conn_code
         ELSE /\ conn_pc' = [conn_pc EXCEPT ![r] = "answered"]
              /\ conn_code' = [conn_code EXCEPT ![r] = 500]
              /\ UNCHANGED <<conn_stream, conn_reads>>
    /\ UNCHANGED conn_kind
    /\ UNCHANGED <<unitVars, trVars, recVars, calVars, sessVars, obsVars, pollVars, chatVars>>

\* one stream.read of the calibration loop
connect_calibrate_read(r) ==
    /\ conn_pc[r] = "calibrating"
    /\ conn_reads[r] < CALIBRATION_FRAMES
    /\ conn_reads' = [conn_reads EXCEPT ![r] = @ + 1]
    /\ UNCHANGED <<conn_pc, conn_kind, conn_stream, conn_code>>
    /\ UNCHANGED <<unitVars, trVars, recVars, calVars, sessVars, obsVars, pollVars, chatVars>>

\* calibrate_silence_threshold returns, after its last read or from its
\* except branch; the stream stays open
connect_calibrate_return(r) ==
    /\ conn_pc[r] = "calibrating"
    /\ conn_pc' = [conn_pc EXCEPT ![r] = "ht_call"]
    /\ UNCHANGED <<conn_kind, conn_stream, conn_reads, conn_code>>
    /\ UNCHANGED <<unitVars, trVars, recVars, calVars, sessVars, obsVars, pollVars, chatVars>>

\* handle_transcription raises AttributeError at recorder.set_status_callback;
\* `with recorder` cleans up, which closes the stream, and the handler's
\* except branch answers 500
connect_handle_transcription(r) ==
    /\ conn_pc[r] = "ht_call"
    /\ "set_status_callback" \notin AudioRecorderAttrs
    /\ conn_stream' = [conn_stream EXCEPT ![r] = FALSE]
    /\ conn_pc' = [conn_pc EXCEPT ![r] = "answered"]
    /\ conn_code' = [conn_code EXCEPT ![r] = 500]
    /\ UNCHANGED <<conn_kind, conn_reads>>
    /\ UNCHANGED <<unitVars, trVars, recVars, calVars, sessVars, obsVars, pollVars, chatVars>>

(* ------------------------------------------------------------------ *)
(* Specifications                                                       *)
(* ------------------------------------------------------------------ *)

NoEvent == [event |-> None, data |-> EmptyData]

\* no history file is stored
NoFiles == [k \in {} |-> << >>]

\* a new ChatHandler apart from its message list
InitChatHandler ==
    /\ chat_pc = "idle"
    /\ current_chat_id = None
    /\ pm_text = NoText
    /\ pm_flags = PmDefaultFlags
    /\ pm_ret = PmReturn(TRUE, NoText)
    /\ llm_requests = << >>
    /\ llm_result = LlmFailure
    /\ llm_output_file = NoText
    /\ tts_calls = << >>
    /\ turns = 0

\* a new ChatHandler; no history file is stored yet
InitChat ==
    /\ InitChatHandler
    /\ messages = << >>
    /\ chat_files = NoFiles

InitRecorder ==
    /\ stream_open \in BOOLEAN
    /\ silence_threshold = DEFAULT_SILENCE_THRESHOLD
    /\ rec_pc = "idle"
    /\ reads = << >>
    /\ frames = << >>
    /\ silent_chunks = 0
    /\ stdout_bar = << >>
    /\ rec_success = FALSE
    /\ rec_status = << >>
    /\ cal_pc = "idle"
    /\ cal_reads = 0
    /\ background_frames = << >>
    /\ cal_result = DEFAULT_SILENCE_THRESHOLD

InitTasks ==
    /\ session_queues = {}
    /\ task_pc = [s \in Sessions |-> "none"]
    /\ task_kind = [s \in Sessions |-> "none"]
    /\ start_result = [s \in Sessions |-> NoStart]
    /\ cycle_in = [s \in Sessions |-> NoInput]
    /\ ht_flags = [s \in Sessions |-> CopyFlags]

InitStatus ==
    /\ status_queue = [s \in Sessions |-> << >>]
    /\ published = [s \in Sessions |-> << >>]
    /\ last_status = [k \in {} |-> EmptyData]
    /\ releases = [s \in Sessions |-> 0]
    /\ task_doc = [s \in Sessions |-> FALSE]
    /\ ht_exc = [s \in Sessions |-> "none"]
    /\ ht_ret = [s \in Sessions |-> NotReturned]
    /\ ht_effects = [s \in Sessions |-> << >>]
    /\ obs_pc = [o \in Observers |-> "idle"]
    /\ obs_sid = [o \in Observers |-> "none"]
    /\ obs_event = [o \in Observers |-> NoEvent]
    /\ obs_site = [o \in Observers |-> 0]
    /\ obs_exc = [o \in Observers |-> {}]
    /\ obs_keepalives = [o \in Observers |-> 0]
    /\ delivered = [o \in Observers |-> << >>]
    /\ poll_pc = "idle"
    /\ poll_sid = "none"
    /\ poll_event = NoEvent
    /\ poll_response = EmptyData
    /\ tr_op = "none"
    /\ tr_arg = TrArg(ModelRaises, << >>)
    /\ tr_ret = TrRet(NoResult, NoValidation)
    /\ conn_pc = [r \in Requests |-> "none"]
    /\ conn_kind = [r \in Requests |-> "none"]
    /\ conn_stream = [r \in Requests |-> FALSE]
    /\ conn_reads = [r \in Requests |-> 0]
    /\ conn_code = [r \in Requests |-> 0]
    /\ cs_sid = None
    /\ cs_calls = 0
    /\ cs_before = {}
    /\ cs_raised = FALSE
    /\ with_pc = "none"
    /\ with_path = "none"
    /\ stream_closes = 0

InitSessions ==
    /\ InitTasks
    /\ InitStatus

InitChannel ==
    /\ InitSessions
    /\ InitChat

\* a chat stored by an earlier run
StoredChat ==
    <<Message("user", Heard_Speech), Message("assistant", ReplyText)>>

\* the history directory is empty or holds the chat "c0"
StoredFiles == {NoFiles, [k \in {"c0"} |-> StoredChat]}

\* the sessions and their status channel; no recording is in progress
Init ==
    /\ InitSessions
    /\ InitChatHandler
    /\ messages = << >>
    /\ chat_files \in StoredFiles
    /\ InitRecorder
    /\ stream_open = FALSE

Next ==
    \/ \E s \in Sessions : start_recording(s)
    \/ \E s \in Sessions : start_chat(s)
    \/ \E s \in Sessions : background_transcription_begin(s)
    \/ \E s \in Sessions : handle_transcription_call(s)
    \/ \E s \in Sessions : handle_transcription_set_status_callback(s)
    \/ \E s \in Sessions : copy_task_dies(s)
    \/ \E s \in Sessions : chat_task_reports_error(s)
    \/ \E o \in Observers, s \in Sessions : stream_status_open(o, s)
    \/ \E o \in Observers : stream_status_resume(o)
    \/ \E o \in Observers : stream_status_disconnect(o)
    \/ \E o \in Observers : stream_status_get(o)
    \/ \E o \in Observers : stream_status_deliver(o)
    \/ \E o \in Observers : stream_status_keepalive(o)
    \/ \E o \in Observers : cleanup_session_check(o)
    \/ \E o \in Observers : cleanup_session_del(o)
    \/ \E s \in Sessions : current_status_get(s)
    \/ current_status_respond

Spec == Init /\ [][Next]_vars

\* one call of record_audio after another on one recorder
InitRecorderOnly ==
    /\ InitRecorder
    /\ InitChannel

NextRecorder ==
    \/ record_audio_start
    \/ record_audio_read
    \/ record_audio_read_fails

SpecRecorder == InitRecorderOnly /\ [][NextRecorder]_vars

\* one call of calibrate_silence_threshold after another on one recorder
NextCalibrate ==
    \/ calibrate_start
    \/ calibrate_read
    \/ calibrate_finish
    \/ calibrate_read_fails

SpecCalibrate == InitRecorderOnly /\ [][NextCalibrate]_vars

\* one chat handler: chats are started or resumed and texts are processed
InitChatOnly ==
    /\ InitRecorder
    /\ InitChannel
    /\ stream_open = FALSE

NextChat ==
    \/ \E text \in ChatTexts, flags \in PmFlagSets : process_message(text, flags)
    \/ \E result \in LlmOutcomes : process_chat_returns(result)
    \/ \E write_ok \in BOOLEAN : add_message_user(write_ok)
    \/ \E write_ok \in BOOLEAN : add_message_assistant(write_ok)
    \/ \E write_ok \in BOOLEAN : initialize_from_llm_response(write_ok)
    \/ process_message_returns
    \/ \E doc \in {NoText, DocContent} : start_new_chat(doc)
    \/ \E chat_id \in {"c0", "c1"}, read_ok \in BOOLEAN : load_existing_chat(chat_id, read_ok)

SpecChat == InitChatOnly /\ [][NextChat]_vars

\* one call of the transcriber after another
NextTranscriber ==
    \/ \E heard \in TrAudio : transcribe_audio_call(heard)
    \/ \E text \in TrTexts : validate_transcription_call(text)

SpecTranscriber == InitRecorderOnly /\ [][NextTranscriber]_vars

\* one recording after another, each handed on by handle_transcription
NextUtterance ==
    \/ record_audio_start
    \/ record_audio_read
    \/ record_audio_read_fails
    \/ handle_transcription_transcribe

SpecUtterance == InitRecorderOnly /\ [][NextUtterance]_vars

\* queues are registered and cleanup_session is called, one call at a time
InitCleanup ==
    /\ InitRecorder
    /\ stream_open = FALSE
    /\ InitChat
    /\ InitStatus
    /\ session_queues \in SUBSET SessionIds
    /\ task_pc = [s \in Sessions |-> "none"]
    /\ task_kind = [s \in Sessions |-> "none"]
    /\ start_result = [s \in Sessions |-> NoStart]
    /\ cycle_in = [s \in Sessions |-> NoInput]
    /\ ht_flags = [s \in Sessions |-> CopyFlags]

NextCleanup ==
    \/ \E sid \in SessionIds : register_queue(sid)
    \/ \E sid \in SessionIds : cleanup_session_call(sid)

SpecCleanup == InitCleanup /\ [][NextCleanup]_vars

\* one background task's `with recorder:` block on a new recorder
InitWith ==
    /\ InitRecorder
    /\ stream_open = FALSE
    /\ InitChannel

NextWith ==
    \/ recorder_enter
    \/ body_calibrate_start
    \/ body_calibrate_read
    \/ body_calibrate_finish
    \/ body_calibrate_read_fails
    \/ body_record_audio_start
    \/ body_record_audio_read
    \/ body_record_audio_read_fails
    \/ \E path \in {"returned", "raised"} : recorder_exit(path)

SpecWith == InitWith /\ [][NextWith]_vars

\* handle_transcription past its first statement, with any mode flags and any
\* collaborators
InitBody ==
    /\ InitRecorder
    /\ stream_open = FALSE
    /\ InitChat
    /\ InitStatus
    /\ session_queues = Sessions
    /\ task_pc = [s \in Sessions |-> "ht_body"]
    /\ task_kind = [s \in Sessions |-> "none"]
    /\ start_result = [s \in Sessions |-> StartResult(None, 200)]
    /\ cycle_in \in [Sessions -> AllCycleInputs]
    /\ ht_flags \in [Sessions -> AllFlags]

NextBody == \E s \in Sessions : handle_transcription_body(s)

SpecBody == InitBody /\ [][NextBody]_vars

\* a started session whose status callback is called with any arguments, its
\* observers and current_status requests
InitPublish ==
    /\ InitRecorder
    /\ stream_open = FALSE
    /\ InitChat
    /\ InitStatus
    /\ session_queues = Sessions
    /\ task_pc = [s \in Sessions |-> "task_started"]
    /\ task_kind = [s \in Sessions |-> "copy"]
    /\ start_result = [s \in Sessions |-> StartResult(None, 200)]
    /\ cycle_in = [s \in Sessions |-> NoInput]
    /\ ht_flags = [s \in Sessions |-> CopyFlags]

NextPublish ==
    \/ \E s \in Sessions, call \in StatusUpdateCalls : status_update(s, call)
    \/ \E o \in Observers, s \in Sessions : stream_status_open(o, s)
    \/ \E o \in Observers : stream_status_resume(o)
    \/ \E o \in Observers : stream_status_disconnect(o)
    \/ \E o \in Observers : stream_status_get(o)
    \/ \E o \in Observers : stream_status_deliver(o)
    \/ \E o \in Observers : stream_status_keepalive(o)
    \/ \E o \in Observers : cleanup_session_check(o)
    \/ \E o \in Observers : cleanup_session_del(o)
    \/ \E s \in Sessions : current_status_get(s)
    \/ current_status_respond

SpecPublish == InitPublish /\ [][NextPublish]_vars

\* requests to the registered blueprint, handled by the threaded server
NextConnect ==
    \/ \E r \in Requests : connect_request(r)
    \/ \E r \in Requests : connect_calibrate_start(r)
    \/ \E r \in Requests : connect_calibrate_read(r)
    \/ \E r \in Requests : connect_calibrate_return(r)
    \/ \E r \in Requests : connect_handle_transcription(r)

InitConnect ==
    /\ InitRecorder
    /\ InitChannel
    /\ stream_open = FALSE

SpecConnect == InitConnect /\ [][NextConnect]_vars

\* handle_transcription called by a session's task with any collaborators
InitCycle ==
    /\ InitRecorder
    /\ stream_open = FALSE
    /\ InitChat
    /\ InitStatus
    /\ session_queues = Sessions
    /\ task_pc = [s \in Sessions |-> "call_ht"]
    /\ task_kind \in [Sessions -> {"copy", "chat"}]
    /\ start_result = [s \in Sessions |-> StartResult(None, 200)]
    /\ cycle_in \in [Sessions -> AllCycleInputs]
    /\ ht_flags = [s \in Sessions |-> CopyFlags]

NextCycle ==
    \/ \E s \in Sessions : handle_transcription_call(s)
    \/ \E s \in Sessions : handle_transcription_set_status_callback(s)
    \/ \E s \in Sessions : copy_task_dies(s)
    \/ \E s \in Sessions : chat_task_reports_error(s)

SpecCycle == InitCycle /\ [][NextCycle]_vars

\* process_chat called with any message history
InitProcessChat ==
    /\ InitRecorder
    /\ stream_open = FALSE
    /\ InitSessions
    /\ InitChatHandler
    /\ chat_files = NoFiles
    /\ messages \in Histories

NextProcessChat ==
    \/ \E text \in ChatTexts : process_chat_call(text)
    \/ \E result \in LlmOutcomes : process_chat_respond(result)

SpecProcessChat == InitProcessChat /\ [][NextProcessChat]_vars

(* ------------------------------------------------------------------ *)
(* Properties of record_audio                                           *)
(* ------------------------------------------------------------------ *)

\* number of consecutive below-threshold reads that end at read n
RECURSIVE SilentRunAt(_)
SilentRunAt(n) ==
    IF n = 0 THEN 0
    ELSE IF reads[n] >= silence_threshold THEN 0
    ELSE 1 + SilentRunAt(n - 1)

\* number of below-threshold reads among the first n
SilentCount(n) == Cardinality({i \in 1..n : reads[i] < silence_threshold})

Idx(n) == [i \in 1..n |-> i]

LoudThenSilent(a, b) ==
    [i \in 1..(a + b) |-> IF i <= a THEN silence_threshold ELSE silence_threshold - 1]

\* C1: record_audio stops successfully if and only if the run of consecutive
\* below-threshold frames strictly exceeds SILENCE_CHUNKS: a run longer than
\* SILENCE_CHUNKS exists only as the run that ends the reads of a recording that
\* returned success, a recording that returned success ends with such a run, and
\* a recording still reading (for instance after exactly SILENCE_CHUNKS silent
\* frames and a loud one) has no such run.
C1_StopBoundary ==
    /\ \A n \in 1..Len(reads) :
         SilentRunAt(n) > SILENCE_CHUNKS
            => (n = Len(reads) /\ rec_pc = "returned" /\ rec_success)
    /\ (rec_pc = "returned" /\ rec_success)
            => SilentRunAt(Len(reads)) = SILENCE_CHUNKS + 1
    /\ rec_pc = "reading" => SilentRunAt(Len(reads)) <= SILENCE_CHUNKS

\* a recording that went through exactly SILENCE_CHUNKS silent frames and a loud
\* frame without stopping, and later stopped on SILENCE_CHUNKS + 1 silent frames
C1_Witness ==
    /\ rec_pc = "returned" /\ rec_success
    /\ \E n \in 2..Len(reads) :
         /\ reads[n] >= silence_threshold
         /\ SilentRunAt(n - 1) = SILENCE_CHUNKS

\* C2 (as claimed): every frame read, the frames of the stopping silence run
\* included, is in the returned sequence in read order; 20 loud frames and 16
\* silent ones return 36 frames.
C2_AllFramesReturned ==
    (rec_pc = "returned" /\ rec_success)
        => /\ frames = Idx(Len(reads))
           /\ (reads = LoudThenSilent(20, 16) => Len(frames) = 36)

\* C2 (amended): the returned sequence holds, in read order, every frame read
\* except the one frame whose read makes the silence run exceed SILENCE_CHUNKS;
\* 20 loud frames and 16 silent ones return 35 frames with success.
C2_AllButStoppingFrame ==
    /\ rec_pc = "reading" => frames = Idx(Len(reads))
    /\ (rec_pc = "returned" /\ rec_success) => frames = Idx(Len(reads) - 1)
    /\ (rec_pc = "returned" /\ ~rec_success) => frames = Idx(Len(reads))
    /\ (rec_pc = "returned" /\ reads = LoudThenSilent(20, 16))
            => (rec_success /\ Len(frames) = 35)

C2_Witness ==
    /\ rec_pc = "returned" /\ rec_success
    /\ reads = LoudThenSilent(20, 16)
    /\ Len(frames) = 35

\* C3: the silence-run counter is observed (by the progress bar) once per silent
\* frame at the length of the run before that frame, so a run of N silent frames
\* shows 0, 1, ..., N-1, and a frame at or above the threshold resets it to 0.
C3_SilenceCounter ==
    /\ Len(stdout_bar) = SilentCount(Len(reads))
    /\ \A n \in 1..Len(reads) :
         reads[n] < silence_threshold
            => stdout_bar[SilentCount(n)] * SILENCE_CHUNKS = SilentRunAt(n - 1) * BarLength
    /\ rec_pc \in {"reading", "returned"} => silent_chunks = SilentRunAt(Len(reads))

\* SILENCE_CHUNKS silent frames observed at 0 .. SILENCE_CHUNKS-1, then a loud
\* frame that reset the counter
C3_Witness ==
    /\ rec_pc = "reading"
    /\ Len(reads) = SILENCE_CHUNKS + 1
    /\ Last(reads) >= silence_threshold
    /\ SilentRunAt(Len(reads) - 1) = SILENCE_CHUNKS
    /\ stdout_bar = [i \in 1..SILENCE_CHUNKS |-> FilledLength(i - 1)]
    /\ silent_chunks = 0

\* progress = min(100, round(100 * silent_count / SILENCE_CHUNKS))
SilenceProgress(sc) ==
    LET r == (200 * sc + SILENCE_CHUNKS) \div (2 * SILENCE_CHUNKS)
    IN  IF r > 100 THEN 100 ELSE r

\* C4: every below-threshold frame read publishes one 'silence' status whose
\* progress is min(100, round(100 * silent_count / SILENCE_CHUNKS)) for the run
\* length before that frame.
C4_SilenceStatusPublished ==
    /\ Len(rec_status) = SilentCount(Len(reads))
    /\ \A n \in 1..Len(reads) :
         reads[n] < silence_threshold
            => /\ rec_status[SilentCount(n)].status = "silence"
               /\ rec_status[SilentCount(n)].progress = SilenceProgress(SilentRunAt(n - 1))

\* a step in which record_audio stops reading without having read a frame: a
\* read of the stream failed
ReadFailsStep == rec_pc = "reading" /\ rec_pc' # "reading" /\ reads' = reads

\* C14: when a read of the stream fails during record_audio, the call returns
\* (it does not raise) with success=False and with exactly the frames appended
\* before the failing read, in read order.
C14_ReadFailureReturnsPartial ==
    [][ReadFailsStep
         => /\ rec_pc' = "returned"
            /\ rec_success' = FALSE
            /\ frames' = frames
            /\ frames' = Idx(Len(reads))]_vars

\* a recording that failed after a loud frame and a silent one and returned both
C14_Witness ==
    /\ rec_pc = "returned" /\ ~rec_success
    /\ Len(reads) = 2
    /\ reads[1] >= silence_threshold /\ reads[2] < silence_threshold
    /\ frames = <<1, 2>>

(* ------------------------------------------------------------------ *)
(* Properties of calibrate_silence_threshold                            *)
(* ------------------------------------------------------------------ *)

\* a step in which a calibration whose CALIBRATION_FRAMES reads all gave empty
\* data comes to its end
CalibrationEndsWithoutFrames ==
    /\ cal_pc = "reading" /\ cal_pc' # "reading"
    /\ cal_reads = CALIBRATION_FRAMES
    /\ background_frames = << >>

\* C13: a calibration in which every read yields no valid frame returns
\* DEFAULT_SILENCE_THRESHOLD, makes it the active threshold, does not raise,
\* and publishes exactly one 'error' status event.
C13_NoFramesDefaultAndError ==
    [][CalibrationEndsWithoutFrames
         => /\ cal_pc' = "returned"
            /\ cal_result' = DEFAULT_SILENCE_THRESHOLD
            /\ silence_threshold' = DEFAULT_SILENCE_THRESHOLD
            /\ Len(rec_status') = Len(rec_status) + 1
            /\ Last(rec_status').status = "error"]_vars

(* ------------------------------------------------------------------ *)
(* Properties of handle_transcription and of the status channel         *)
(* ------------------------------------------------------------------ *)

\* C5: handle_transcription never raises to its caller.
C5_NeverRaises ==
    \A s \in Sessions : ht_exc[s] = "none"

\* C6: once the background task of a started session has ended, a terminal
\* status event (complete or error) has been published on the session's queue.
C6_TerminalEventPublished ==
    \A s \in Sessions :
        task_pc[s] = "ended"
            => \E i \in 1..Len(published[s]) : IsTerminal(published[s][i].data.status)

\* the events a stream delivered from the queue (they carry an event type)
QueueEvents(msgs) ==
    LET evs == SelectSeq(msgs, LAMBDA m : m.event # None)
    IN  [i \in 1..Len(evs) |-> [event |-> evs[i].event, data |-> evs[i].data]]

DeliveredTerminal(o) ==
    \E i \in 1..Len(delivered[o]) :
        delivered[o][i].event # None /\ IsTerminal(delivered[o][i].data.status)

\* C7: when one stream of a session delivers the terminal event and calls
\* cleanup_session (line 108) while another stream of the same session
\* disconnects and calls it too (line 134), the session's queue is released
\* exactly once and neither call raises, however the two calls interleave.
C7_TeardownOnceNoError ==
    \A o \in Observers : \A o2 \in Observers \ {o} :
        ( /\ obs_sid[o] = obs_sid[o2]
          /\ DeliveredTerminal(o) /\ obs_site[o] = 108
          /\ obs_site[o2] = 134 )
            => /\ obs_exc[o] = {} /\ obs_exc[o2] = {}
               /\ releases[obs_sid[o]] <= 1
               /\ (obs_pc[o] = "closed" /\ obs_pc[o2] = "closed")
                     => releases[obs_sid[o]] = 1

\* C8: the one stream subscriber of a session is delivered every event
\* published on the session's queue, in publication order, also when
\* current_status is polled while the stream is open: whenever the only stream
\* waits on the empty queue, it has delivered all that was published.
C8_NoEventLost ==
    \A o \in Observers :
        ( /\ obs_pc[o] = "get"
          /\ status_queue[obs_sid[o]] = << >>
          /\ \A o2 \in Observers \ {o} : obs_pc[o2] = "idle" )
            => QueueEvents(delivered[o]) = published[obs_sid[o]]

\* C9: a terminal event is the last thing its stream delivers, and the stream
\* that delivered it ends with the session's queue removed from session_queues.
C9_TerminalEndsStream ==
    \A o \in Observers :
        /\ \A i \in 1..Len(delivered[o]) :
             (delivered[o][i].event # None /\ IsTerminal(delivered[o][i].data.status))
                => i = Len(delivered[o])
        /\ (obs_pc[o] = "closed" /\ DeliveredTerminal(o))
                => obs_sid[o] \notin session_queues

KeepaliveStep(o) == obs_pc[o] = "get" /\ obs_pc'[o] = "yield_keepalive"

\* C10 (as claimed): every keepalive carries the status, message and progress
\* of the last event published for the session, never the 'unknown' placeholder.
C10_KeepaliveLastPublished ==
    [][\A o \in Observers :
          KeepaliveStep(o)
            => /\ published[obs_sid[o]] # << >>
               /\ Last(delivered'[o]).data = Last(published[obs_sid[o]]).data]_vars

\* what update_last_status can have recorded for a session
Recorded(s) ==
    {published[s][i].data : i \in 1..Len(published[s])}
        \cup {SessionNotFound(s), StreamError(s, "KeyError")}

\* C10 (amended): every keepalive carries the status, message and progress of
\* the session's entry in last_status (an event taken from the queue, or an
\* error a stream recorded) when there is one, and the 'unknown' placeholder
\* only when nothing has been recorded for the session.
C10_KeepaliveLastKnown ==
    [][\A o \in Observers :
          KeepaliveStep(o)
            => LET s == obs_sid[o]
                   k == Last(delivered'[o])
               IN  /\ k.event = None
                   /\ IF s \in DOMAIN last_status
                      THEN /\ last_status[s] \in Recorded(s)
                           /\ k.data.status = last_status[s].status
                           /\ k.data.message = last_status[s].message
                           /\ k.data.progress = last_status[s].progress
                      ELSE k.data = UnknownStatus(s)]_vars

\* a keepalive that carries the 'processing' status recorded for the session
C10_Witness ==
    \E o \in Observers :
        /\ obs_pc[o] = "yield_keepalive"
        /\ Last(delivered[o]).event = None
        /\ Last(delivered[o]).data.status = "processing"
        /\ obs_sid[o] \in DOMAIN last_status
        /\ last_status[obs_sid[o]].status = "processing"

\* the error events published on a session's queue
PublishedErrors(s) ==
    {published[s][i].data : i \in {j \in 1..Len(published[s]) :
                                      published[s][j].data.status = "error"}}

\* some stream of the session has delivered an error event taken from the queue
ErrorDelivered(s) ==
    \E o \in Observers : \E i \in 1..Len(delivered[o]) :
        /\ obs_sid[o] = s
        /\ delivered[o][i].event # None
        /\ delivered[o][i].data \in PublishedErrors(s)

\* a step in which current_status receives a request for session s and answers
\* it without taking an event from the queue
PollAnswers(s) ==
    /\ poll_pc = "idle" /\ poll_pc' = "idle"
    /\ poll_sid' = s
    /\ <<poll_sid, poll_response>>' # <<poll_sid, poll_response>>

\* C11: once an 'error' event published for a session has been consumed by the
\* session's stream, every later request to current_status for that session is
\* answered with that error status, also after the stream has torn the channel
\* down.
C11_PollSeesError ==
    [][\A s \in Sessions :
          (ErrorDelivered(s) /\ PollAnswers(s))
             => poll_response' \in PublishedErrors(s)]_vars

\* C12: when the background task of a session has ended through an exception
\* of handle_transcription, an error event has been published on the session's
\* queue and the session's queue entry has been removed from session_queues,
\* for copy and chat sessions alike and whether or not an observer is connected.
C12_ExceptionReleasesSession ==
    \A s \in Sessions :
        (task_pc[s] = "ended" /\ ht_exc[s] # "none")
            => /\ PublishedErrors(s) # {}
               /\ s \notin session_queues

(* ------------------------------------------------------------------ *)
(* Properties of one handle_transcription cycle                         *)
(* ------------------------------------------------------------------ *)

\* the session's cycle is over: its background task has ended
CycleOver(s) == task_pc[s] = "ended"

PublishedStatus(s, status, message) ==
    \E i \in 1..Len(published[s]) :
        /\ published[s][i].data.status = status
        /\ published[s][i].data.message = message

Performed(s, step) == \E i \in 1..Len(ht_effects[s]) : ht_effects[s][i] = step

\* the steps that route a transcription
RoutingSteps == {"clipboard_copy", "file_save", "process_message", "llm", "llm_save", "tts"}

\* C15: a cycle whose record_audio reported failure is over with
\* handle_transcription having returned continue=True, an 'error' status
\* published, and the transcriber not called.
C15_RecordFailureAborts ==
    \A s \in Sessions :
        (CycleOver(s) /\ cycle_in[s].audio = "read_fails")
            => /\ ht_ret[s].returned /\ ht_ret[s].continue
               /\ PublishedStatus(s, "error", "Failed to record audio")
               /\ ~Performed(s, "transcribe_audio")

\* the specific reason of a failed transcription
TranscriptionFailure(heard) ==
    IF transcribe_audio(heard).is_none THEN "Transcription failed"
    ELSE transcribe_audio(heard).validation_error

\* C16: a cycle whose transcribe_audio returned None or a result with a
\* validation error is over with handle_transcription having returned
\* continue=True, no routing step performed, and an 'error' status published
\* whose message is the specific reason.
C16_TranscriptionFailureAborts ==
    \A s \in Sessions :
        (CycleOver(s) /\ cycle_in[s].audio = "recorded"
                      /\ TranscriptionFailure(cycle_in[s].heard) # None)
            => /\ ht_ret[s].returned /\ ht_ret[s].continue
               /\ PublishedStatus(s, "error", TranscriptionFailure(cycle_in[s].heard))
               /\ \A step \in RoutingSteps : ~Performed(s, step)

\* the session runs handle_transcription in single-shot mode (no chat handler)
SingleShot(s) == task_kind[s] = "copy"

SaysExit(in) ==
    in.audio = "recorded" /\ ~in.heard.raises
        /\ normalize_text(in.heard.text) = <<"e", "x", "i", "t">>

\* C17: a single-shot cycle whose transcribed text normalizes to 'exit' is over
\* with the exit-command check reached, continue=False returned, and neither
\* the language model nor the speech-output conversion called.
C17_ExitCommandEndsLoop ==
    \A s \in Sessions :
        (CycleOver(s) /\ SingleShot(s) /\ SaysExit(cycle_in[s]))
            => /\ ht_ret[s].returned /\ ~ht_ret[s].continue
               /\ Performed(s, "exit_check")
               /\ ~Performed(s, "llm") /\ ~Performed(s, "tts")

\* the side-effect steps of single-shot mode in their fixed order, those the
\* flags enable
EnabledSteps(flags) ==
    (IF flags.copy_to_clipboard THEN <<"clipboard_copy">> ELSE << >>)
      \o (IF flags.output_file THEN <<"file_save">> ELSE << >>)
      \o <<"exit_check">>
      \o (IF flags.use_llm THEN <<"llm">> ELSE << >>)
      \o (IF flags.use_kokoro /\ ~flags.stream_to_speakers THEN <<"tts">> ELSE << >>)

SideEffectStep(e) == e \in {"clipboard_copy", "file_save", "exit_check", "llm", "tts"}

SaysSpeech(in) ==
    in.audio = "recorded" /\ TranscriptionFailure(in.heard) = None /\ ~SaysExit(in)

\* C18: a single-shot cycle with a valid transcription that is not the exit
\* command is over with its enabled side effects performed in the order
\* clipboard copy, file save, exit-command check, language model, speech
\* output, the speech output skipped when stream_to_speakers is set.
C18_SideEffectsInOrder ==
    \A s \in Sessions :
        (CycleOver(s) /\ SingleShot(s) /\ SaysSpeech(cycle_in[s]))
            => SelectSeq(ht_effects[s], SideEffectStep)
                  = EnabledSteps(TaskFlags(task_kind[s]))


\* the texts whose trimmed, lower-cased form is 'exit', 'quit' or 'stop'
ExitInputs == {Heard_Exit, Said_Stop, Said_Quit}

\* a step in which process_message is called with an exit phrase
ExitTurnStep ==
    /\ chat_pc = "idle"
    /\ turns' = turns + 1
    /\ pm_text' \in ExitInputs

\* C19: a call of process_message whose text, trimmed and lower-cased, is
\* 'exit', 'quit' or 'stop' returns continue=False at once: no request is
\* made to the language model and the history is left as it was, in memory
\* and in the stored files.
C19_ExitPhraseShortCircuits ==
    [][ExitTurnStep =>
          /\ pm_ret' = PmReturn(FALSE, NoText)
          /\ chat_pc' = "idle"
          /\ UNCHANGED <<llm_requests, messages, chat_files, current_chat_id>>]_vars

\* an exit phrase was given to a chat that has a stored history
C19_Witness ==
    /\ chat_pc = "idle"
    /\ pm_text = Heard_Exit
    /\ ~pm_ret.continue
    /\ current_chat_id # None
    /\ Len(messages) = 2
    /\ current_chat_id \in DOMAIN chat_files
    /\ Len(llm_requests) = 1

\* a step in which the language-model request of a chat turn fails
LlmFailsStep ==
    /\ chat_pc = "llm_wait"
    /\ chat_pc' # "llm_wait"
    /\ ~llm_result'.ok

\* C20: when the language-model request of a chat turn fails, process_message
\* returns continue=True without a response and leaves the chat as it was:
\* no user or assistant message is appended and no history file is written.
C20_LlmFailureLeavesChat ==
    [][LlmFailsStep =>
          /\ pm_ret' = PmReturn(TRUE, NoText)
          /\ chat_pc' = "idle"
          /\ UNCHANGED <<messages, chat_files, current_chat_id>>]_vars

\* the second turn of a stored chat failed at the language model
C20_Witness ==
    /\ chat_pc = "idle"
    /\ ~llm_result.ok
    /\ pm_ret = PmReturn(TRUE, NoText)
    /\ Len(llm_requests) = 2
    /\ Len(messages) = 2
    /\ current_chat_id \in DOMAIN chat_files

\* the stored history of the current chat equals the message list
Persisted ==
    /\ current_chat_id \in DOMAIN chat_files
    /\ chat_files[current_chat_id] = messages

\* a step that seeds, initializes or appends to the message list
HistoryMutationStep == messages' # messages /\ messages' # << >>

\* a step in which process_message returns a response
TurnSucceedsStep == chat_pc = "tts" /\ chat_pc' = "idle"

EndsWithExchange(msgs, text, reply) ==
    /\ Len(msgs) >= 2
    /\ msgs[Len(msgs) - 1] = Message("user", text)
    /\ msgs[Len(msgs)] = Message("assistant", reply)

\* C21: a chat turn that returns a response has appended the user message and
\* then the assistant reply to the history, and after every step that changes
\* the message list the stored history of the chat equals the message list.
C21_HistoryPersistedAfterMutation ==
    [][/\ HistoryMutationStep => Persisted'
       /\ TurnSucceedsStep => EndsWithExchange(messages, pm_text, llm_result.text)]_vars

\* every system message of a list stands before every user or assistant message
SystemFirst(msgs) ==
    \A i \in 1..Len(msgs), j \in 1..Len(msgs) :
        (msgs[i].role = "system" /\ msgs[j].role \in {"user", "assistant"}) => i < j

\* C22: whatever the order of the messages in the history, every message list
\* posted to the language model has its system messages before every user or
\* assistant message and the new user message last.
C22_RequestsSystemFirstUserLast ==
    [][llm_requests' # llm_requests =>
          LET r == llm_requests'[Len(llm_requests')] IN
          /\ SystemFirst(r)
          /\ r[Len(r)] = Message("user", pm_text')]_vars

\* a request was posted for a history that holds a system message after a
\* user message
C22_Witness ==
    /\ Len(llm_requests) >= 1
    /\ Len(messages) = 2
    /\ messages[1].role = "user"
    /\ messages[2].role = "system"
    /\ Len(llm_requests[1]) = 3

\* a step of initialize_from_llm_response on a history with a system message
InitializeStep == chat_pc = "initialize" /\ chat_pc' # "initialize" /\ SystemMessages(messages) # << >>

\* C23: initialize_from_llm_response on a history that holds a system message
\* keeps the first system message unchanged at the head of the message list,
\* before the new user and assistant messages.
C23_SystemMessageKept ==
    [][InitializeStep =>
          /\ messages'[1] = SystemMessages(messages)[1]
          /\ llm_result.id # None =>
                /\ EndsWithExchange(messages', pm_text, llm_result.text)
                /\ Len(messages') = Len(SystemMessages(messages)) + 2]_vars

\* a chat seeded with a document was initialized from the first response
C23_Witness ==
    /\ chat_pc = "tts"
    /\ current_chat_id # None
    /\ Len(messages) = 3
    /\ messages[1] = Message("system", WrapDocument(DocContent))
    /\ messages[2] = Message("user", InitialPrompt)

\* session s is a new chat started with a document
NewChatWithDoc(s) ==
    /\ task_kind[s] = "chat"
    /\ task_doc[s]
    /\ start_result[s] = StartResult(None, 200)

\* C24: once a new chat has been started with a document path, and so before
\* its task records any audio, the history starts with the system message
\* that wraps the document and the document-analysis prompt has been sent
\* through process_message.
C24_DocumentSeededAtStart ==
    \A s \in Sessions :
        NewChatWithDoc(s) =>
            /\ messages # << >>
            /\ messages[1] = Message("system", WrapDocument(DocContent))
            /\ llm_requests # << >>
            /\ llm_requests[1][Len(llm_requests[1])] = Message("user", InitialPrompt)

\* a step of start_chat whose chat_id names no stored chat
ResumeUnresolvedStep(s) ==
    /\ task_pc[s] = "none"
    /\ task_pc'[s] # "none"
    /\ start_result'[s].chat_id # None
    /\ start_result'[s].chat_id \notin DOMAIN chat_files

\* C25: a start request whose chat_id names no stored chat is answered with an
\* error status; no task is started, the session's queue is not kept, and the
\* handler's messages and chat id are as before: no new chat is started
\* instead.
C25_UnresolvedResumeFails ==
    [][\A s \in Sessions :
          ResumeUnresolvedStep(s) =>
              /\ start_result'[s].code \in {400, 404, 500}
              /\ task_pc'[s] = "start_failed"
              /\ s \notin session_queues'
              /\ UNCHANGED <<messages, current_chat_id, chat_files, task_kind, cycle_in>>]_vars

\* a resume of a chat that is not stored was refused with 404 while another
\* chat is stored
C25_Witness ==
    \E s \in Sessions :
        /\ start_result[s] = StartResult("c1", 404)
        /\ task_pc[s] = "start_failed"
        /\ "c0" \in DOMAIN chat_files

\* the sinks the flags enable
EnabledSinks(flags) ==
    (IF flags.stream_to_speakers THEN {"speakers"} ELSE {})
      \cup (IF flags.save_to_file THEN {"file"} ELSE {})

SpeechRequested(flags) == flags.use_kokoro \/ flags.stream_to_speakers

\* the synthesis calls a step adds
NewTtsCalls == SubSeq(tts_calls', Len(tts_calls) + 1, Len(tts_calls'))

\* C26: whatever the flags, a chat response causes at most one speech-synthesis
\* call, and when speech output is requested with a sink enabled the response
\* is synthesized once and reaches every enabled sink.
C26_SynthesizedOncePerResponse ==
    [][TurnSucceedsStep =>
          /\ Len(NewTtsCalls) <= 1
          /\ (SpeechRequested(pm_flags) /\ EnabledSinks(pm_flags) # {}) =>
                /\ Len(NewTtsCalls) = 1
                /\ EnabledSinks(pm_flags) \subseteq
                      {SinkOf(NewTtsCalls[i]) : i \in 1..Len(NewTtsCalls)}]_vars

SuspiciousNormalized == {normalize_text(r) : r \in SUSPICIOUS_RESPONSES}

\* the kind of reason an error message gives
ReasonKind(message) ==
    IF message = None THEN "none"
    ELSE IF message = "Low confidence transcription detected" THEN "LowConfidence"
    ELSE "TooShort"

\* the classification of a text: a suspicious phrase, else too short, else valid
Classified(text, v) ==
    LET n == normalize_text(text) IN
    IF n \in SuspiciousNormalized
    THEN ~v.is_valid /\ ReasonKind(v.error_message) = "LowConfidence"
    ELSE IF WordCount(n) < MINIMUM_WORD_COUNT
    THEN ~v.is_valid /\ ReasonKind(v.error_message) = "TooShort"
    ELSE v.is_valid /\ ReasonKind(v.error_message) = "none"

\* C29: validate_transcription gives the same pair for a text and for its
\* normalized form, and classifies: a suspicious phrase such as 'ok' is invalid
\* as low confidence, any other text of fewer than MINIMUM_WORD_COUNT words is
\* invalid as too short, and a text such as 'hello there friend' is valid.
C29_ValidationClassifies ==
    tr_op = "validate_transcription" =>
        /\ tr_ret.validation = validate_transcription(normalize_text(tr_arg.text))
        /\ Classified(tr_arg.text, tr_ret.validation)

ValidationReported(heard, result) ==
    /\ ~result.is_none
    /\ result.text = normalize_text(heard.text)
    /\ result.validation_error = validate_transcription(result.text).error_message
    /\ (result.validation_error = None) = validate_transcription(result.text).is_valid

\* C30 as stated: transcribe_audio returns None exactly when the model raises,
\* and when the model returns a text the result is not None and carries a
\* validation failure in its validation_error field.
C30_NoneOnlyOnModelFailure ==
    tr_op = "transcribe_audio" =>
        /\ tr_ret.result.is_none = tr_arg.heard.raises
        /\ (~tr_arg.heard.empty /\ ~tr_arg.heard.raises)
              => ValidationReported(tr_arg.heard, tr_ret.result)

\* C30 amended: transcribe_audio returns None exactly when it is given no audio
\* data or the model raises, and when the model returns a text the result is
\* not None and carries a validation failure in its validation_error field.
C30_NoneOnlyWithoutAudioOrOnModelFailure ==
    tr_op = "transcribe_audio" =>
        /\ tr_ret.result.is_none = (tr_arg.heard.empty \/ tr_arg.heard.raises)
        /\ (~tr_arg.heard.empty /\ ~tr_arg.heard.raises)
              => ValidationReported(tr_arg.heard, tr_ret.result)

\* the model returned 'ok' and the result reports the validation failure
C30_Witness ==
    /\ tr_op = "transcribe_audio"
    /\ tr_arg.heard = ModelReturns(Heard_Ok)
    /\ ~tr_ret.result.is_none
    /\ tr_ret.result.validation_error # None

\* the requests whose recorder is reading its open input stream
MicReaders == {r \in Requests : conn_stream[r] /\ conn_pc[r] = "calibrating"}

\* C27: at any time at most one recorder is reading an open microphone
\* stream: the calibration and recording phases of two requests started at the
\* same time never overlap.
C27_OneMicrophoneReader == Cardinality(MicReaders) <= 1

\* C28: a cycle that finds the stop event set at its checkpoint is over with
\* handle_transcription having returned continue=False, record_audio and the
\* transcriber not called and no routing step taken; a stop event set only
\* after the checkpoint does not cut the cycle short.
C28_StopCheckedBeforeRecording ==
    \A s \in Sessions :
        CycleOver(s) =>
            /\ cycle_in[s].stop =>
                  /\ ht_ret[s].returned /\ ~ht_ret[s].continue
                  /\ ~Performed(s, "record_audio")
                  /\ ~Performed(s, "transcribe_audio")
                  /\ \A step \in RoutingSteps : ~Performed(s, step)
            /\ (~cycle_in[s].stop /\ cycle_in[s].stop_later
                   /\ cycle_in[s].audio = "recorded") =>
                  /\ ht_ret[s].returned
                  /\ Performed(s, "record_audio")
                  /\ Performed(s, "transcribe_audio")

(* ------------------------------------------------------------------ *)
(* Properties of the utterance handed to the transcriber                *)
(* ------------------------------------------------------------------ *)

\* handle_transcription calls transcribe_audio in this step
HandsToTranscriber ==
    rec_pc = "returned" /\ rec_pc' = "idle" /\ tr_op' = "transcribe_audio"

PublishedKinds(s) == [i \in 1..Len(published[s]) |-> published[s][i].data.status]

CountOf(kinds, k) == Cardinality({i \in 1..Len(kinds) : kinds[i] = k})

\* place of a status kind in the order calibrating, recording, silence,
\* processing, streaming, complete / error
StatusRank(k) ==
    CASE k = "calibrating" -> 1
      [] k = "recording"   -> 2
      [] k = "silence"     -> 3
      [] k = "processing"  -> 4
      [] k = "streaming"   -> 5
      [] OTHER             -> 6

InStatusOrder(kinds) ==
    \A i, j \in 1..Len(kinds) : i < j => StatusRank(kinds[i]) <= StatusRank(kinds[j])

StepIndex(s, step) ==
    IF Performed(s, step)
    THEN CHOOSE i \in 1..Len(ht_effects[s]) :
            /\ ht_effects[s][i] = step
            /\ \A j \in 1..(i - 1) : ht_effects[s][j] # step
    ELSE 0

Started(s) == start_result[s].code = 200

\* the session's queue has been registered at some time
WasRegistered(s) == s \in session_queues \/ releases[s] >= 1

\* the session is live: started and not torn down
Live(s) == Started(s) /\ releases[s] = 0

\* the start request of the session returns its session id in this step
StartReturnsStep(s) == start_result[s] = NoStart /\ start_result'[s].code = 200

\* the observer subscribes to the session in this step
SubscribesStep(o, s) == obs_pc[o] = "idle" /\ obs_pc'[o] # "idle" /\ obs_sid'[o] = s

StartFailsStep(s) == start_result[s] = NoStart /\ start_result'[s].code \in {400, 404, 500}

\* C40: a start request that returns an error response (invalid mode, invalid
\* document path, chat session not found, exception during setup) returns
\* with the session's queue removed and no background task started, so that
\* session_queues is as it was before the request.
C40_FailedStartLeavesNoQueue ==
    [][\A s \in Sessions :
          StartFailsStep(s)
             => /\ s \notin session_queues'
                /\ session_queues' = session_queues
                /\ task_pc'[s] = "start_failed"
                /\ task_kind'[s] = "none"]_vars

\* a start request has failed
C40_Witness ==
    \E s \in Sessions :
        /\ start_result[s].code \in {400, 404, 500}
        /\ task_pc[s] = "start_failed"
        /\ s \notin session_queues

(* ------------------------------------------------------------------ *)
(* Properties of cleanup_session                                        *)
(* ------------------------------------------------------------------ *)

\* C35: after any number of calls of cleanup_session in a row with one session
\* id, session_queues is what one call leaves: the queues held before the
\* first call without that id's queue, every other session's queue still
\* there; and no call has raised.
C35_CleanupIdempotent ==
    cs_calls >= 1
        => /\ session_queues = cs_before \ {cs_sid}
           /\ \A other \in cs_before \ {cs_sid} : other \in session_queues
           /\ ~cs_raised

\* cleanup_session has been called twice in a row for a session that had a
\* queue, with another session's queue registered
C35_Witness ==
    /\ cs_calls >= 2
    /\ cs_sid \in cs_before
    /\ cs_before \ {cs_sid} # {}
    /\ session_queues = cs_before \ {cs_sid}
    /\ ~cs_raised

(* ------------------------------------------------------------------ *)
(* Properties of the recorder's stream                                  *)
(* ------------------------------------------------------------------ *)

\* C36: once the background task has left its `with recorder:` block, by a
\* return of handle_transcription or by an exception, the recorder's stream
\* is closed (stream is None) and was closed at most once.
C36_StreamReleasedOnExit ==
    with_pc = "exited" => (~stream_open /\ stream_closes <= 1)

\* an exception has left the block while the stream was open
C36_Witness ==
    /\ with_pc = "exited"
    /\ with_path = "raised"
    /\ stream_closes = 1
    /\ ~stream_open

(* ------------------------------------------------------------------ *)
(* Properties of the terminal events                                    *)
(* ------------------------------------------------------------------ *)

\* the terminal events (complete, error) the session's cycle has published
TerminalEvents(s) ==
    {i \in 1..Len(published[s]) : IsTerminal(published[s][i].data.status)}

TornDown(s) == releases[s] >= 1

SchemaStatuses ==
    {"calibrating", "recording", "silence", "processing", "streaming", "complete",
     "error"}

\* the data fits the event schema
InSchema(d) ==
    /\ d.status \in SchemaStatuses
    /\ d.status = "silence" => (d.progress >= 0 /\ d.progress <= 100)

\* the messages the observer was sent that carry an event taken from the queue
QueueDeliveries(o) == {i \in 1..Len(delivered[o]) : delivered[o][i].event # None}

\* every event stream_status delivers from a session's queue fits the schema
DeliveriesInSchema ==
    \A o \in Observers : \A i \in QueueDeliveries(o) : InSchema(delivered[o][i].data)

\* C39: every event stream_status delivers from a session's queue fits the
\* schema (one of the seven statuses; a 'silence' event with a progress
\* between 0 and 100), and no event outside the schema becomes the session's
\* last known status.
C39_OnlySchemaEventsDelivered ==
    /\ DeliveriesInSchema
    /\ \A s \in DOMAIN last_status : InSchema(last_status[s])

====
